---------------------------- MODULE Spec2Model ----------------------------
(***************************************************************************)
(* A model of the crawl-and-detect engine of the Mini OWASP web scanner    *)
(* (packages/core/wvscanner_core.py).                                      *)
(*                                                                         *)
(* Python strings are sequences of tokens.  A token is one character,      *)
(* except that the scheme names "http" and "https" are single tokens.      *)
(* URL parsing and formatting (urllib.parse.urlsplit / urlunsplit) are     *)
(* modelled on those sequences, so that what a URL looks like after being  *)
(* formatted and parsed again is computed, not assumed.                    *)
(***************************************************************************)
EXTENDS Integers, Sequences, FiniteSets, TLC

VARIABLES
    \* --- canonicalizer harness (pure functions applied to drawn inputs)
    c_pc,        \* "in" | "once" | "twice" ("idle" in other specifications)
    c_u,         \* first input URL
    c_v,         \* second input URL
    c_o,         \* start origin
    c_p,         \* start path
    c_cu,        \* canonicalize_spa(c_u, c_o, c_p)
    c_cv,        \* canonicalize_spa(c_v, c_o, c_p)
    c_ccu        \* canonicalize_spa(c_cu, c_o, c_p)

VARIABLES
    \* --- run_scan configuration and the crawl
    pc,            \* "init" | "loop" | "done" | "raised" ("idle" in other specifications)
    cfg,           \* the scan configuration handed to run_scan
    target,        \* the target handed to run_scan
    site,          \* the web: fetch URL -> response (effective URL, link candidates, forms)
    cp,            \* the keyword arguments run_scan passes to crawl()
    q,             \* the FIFO frontier of [url, depth]
    visited_keys,  \* set of canonical keys
    pages,         \* list of page URLs, in the order appended
    forms,         \* dict: page URL -> the forms of the page
    renderer,      \* js_browser_ctx: "none" | "open" | "closed"
    fails,         \* number of fetches that raised so far
    \* history (not read by the crawl)
    fetched,       \* the GETs issued for frontier items: [key, depth, url, ok, verdict]
    page_depth,    \* the depth of each entry of pages
    enqueued,      \* every q.put: [url, depth, parent], parent = -1 for the seed
    admission,     \* host admission decisions: [kind, url, admitted]
    failures,      \* the state at each fetch that raised, and the state one step later
    put_log,       \* every q.put in order: [url, depth, src, page] (src: the source of the
                   \* link, page: the position in pages of the page it was found on)
    page_put,      \* for each entry of pages, the position in put_log of its frontier item
    renders        \* the URLs render_url was called with by crawl()

VARIABLES
    \* --- detection modules (test_reflected_xss, test_sqli_basic)
    t_pc,        \* "xss" | "baseline" | "sqli" | "dom" | "dom_loop" | "done" ("idle" in other
                 \* specifications)
    t_url,       \* the page URL under test
    t_param,     \* the query parameter under test
    t_payloads,  \* the payload list
    t_cap,       \* the cap argument: {} for None, {n} for the integer n
    t_k,         \* position of the for loop in the payload list
    tested,      \* the counter of that name
    baseline,    \* test_sqli_basic's baseline text
    t_result,    \* the return value: <<>> for None, <<finding>> for a Finding
    \* history (not read by the modules)
    t_base,      \* the baseline fetch: <<>> or <<[ok, text]>>
    t_probes     \* the probes: [k, url, ok, text] (test_dom_xss_with_js: and [dialog, canary])

VARIABLES
    \* --- check_security_headers
    h_pc,        \* "required" | "hsts" | "done" ("idle" in other specifications)
    h_url,       \* resp.url
    h_names,     \* the header names of resp.headers
    h_required,  \* the required-header list
    h_k,         \* position of the for loop in the required list
    h_f          \* the list f of findings

VARIABLES
    \* --- run_scan after the crawl
    s_pc,        \* "build" | "call" | "headers" | "detect" | "done" | "handed" | "saved" |
                 \* "crashed"
                 \* ("idle" in other specifications)
    s_pages,     \* pages, as crawl() returned them
    s_forms,     \* forms, as crawl() returned them: page URL -> list of forms
    s_required,  \* required_headers
    s_base,      \* the part of sorted(base_urls) still to be checked
    s_xss,       \* xss_payloads
    s_sqli,      \* sqli_payloads
    s_js,        \* js_cfg: "off" | "on" | "bad" (enabled, with a timeout that is no number)
    s_at,        \* the place in the detection pass: [i, phase, j] (page, loop, parameter)
    findings,    \* the list of that name
    s_result,    \* the return value, res in the CLI: <<>> or <<ScanResult>>
    \* history (not read by run_scan)
    s_gets,      \* the header-check GETs: [url, ok]
    s_calls      \* the calls of detection modules: [mod, i, param, raised] (with the payload
                 \* lists: the call that runs)

VARIABLES
    \* --- run_scan before the crawl: the payload lists
    s_pcfg,      \* payloads_cfg: [xss_reflected, xss_files, sqli_basic, sqli_files, cap]
    s_cap        \* per_param_cap: {} for None, {n} for the integer n

VARIABLES
    \* --- the callers of run_scan: the API's scan task (api_server.py) and the CLI (cli.py)
    a_pc,        \* "request" | "refused" | "task" | "config" | "scan" | "report" | "returned" | "exited" | "emit"
                 \* ("idle" in other specifications)
    a_req,       \* the request: [caller, url, config] (config: what opening and parsing
                 \* the configuration file gives)
    a_st,        \* RUNS.get(scan_id): <<>> for None, <<ScanStatus>> for the scan's status
    a_now,       \* the clock read by time.time() and time.strftime()
    \* history (not read by the callers)
    a_ran,       \* the number of calls of run_scan
    a_exit,      \* how the caller ended: <<>> | <<"return">> | <<"raise">> | <<"exit", status>>
    a_emitted    \* every line _progress_emit appended, in emission order

VARIABLES
    \* --- the API server (api_server.py): the scan store, the scan tasks and a stream reader
    RUNS,        \* the dict of that name: scan_id -> ScanStatus
    tasks,       \* the background tasks: scan_id -> [pc, config] (pc: "queued" | "returned")
    now,         \* the clock read by time.time() and time.strftime()
    reader,      \* a GET /scan/{scan_id}/stream: <<>> before the request, or [pc, scan_id,
                 \* last, cur, i, polls] (pc: the place event_gen is suspended at: "first" | "sleep" |
                 \* "line" | "status"; or "ended" | "404")
    \* history (not read by the server)
    stream,      \* the chunks event_gen yielded: <<"status", state>> or <<"log", line>>
    written      \* scan_id -> every line _progress_emit appended, in emission order

canonVars == <<c_pc, c_u, c_v, c_o, c_p, c_cu, c_cv, c_ccu>>
inputVars == <<cfg, target, site>>
orderVars == <<put_log, page_put, renders>>
histVars == <<fetched, page_depth, enqueued, admission, failures, orderVars>>
crawlVars == <<pc, inputVars, cp, q, visited_keys, pages, forms, renderer, fails, histVars>>

probeVars ==
    <<t_pc, t_url, t_param, t_payloads, t_cap, t_k, tested, baseline, t_result, t_base, t_probes>>

hdrVars == <<h_pc, h_url, h_names, h_required, h_k, h_f>>

scanVars ==
    <<s_pc, s_pages, s_forms, s_required, s_base, s_xss, s_sqli, s_js, s_at, findings, s_result,
      s_gets, s_calls>>

payloadVars == <<s_pcfg, s_cap>>

apiVars == <<a_pc, a_req, a_st, a_now, a_ran, a_exit, a_emitted>>

serverVars == <<RUNS, tasks, now, reader, stream, written>>

vars ==
    <<canonVars, crawlVars, probeVars, hdrVars, scanVars, payloadVars, apiVars, serverVars>>

\* what the actions of one part leave alone: the variables of the other parts
canonRest == <<crawlVars, probeVars, hdrVars, scanVars, payloadVars, apiVars, serverVars>>
crawlRest == <<canonVars, probeVars, hdrVars, scanVars, payloadVars, apiVars, serverVars>>
probeRest == <<canonVars, crawlVars, hdrVars, scanVars, payloadVars, apiVars, serverVars>>
hdrRest == <<canonVars, crawlVars, probeVars, scanVars, payloadVars, apiVars, serverVars>>
scanRest == <<canonVars, crawlVars, probeVars, hdrVars, payloadVars, apiVars, serverVars>>
payloadRest == <<canonVars, crawlVars, hdrVars, apiVars, serverVars>>
apiRest == <<canonVars, crawlVars, probeVars, hdrVars, scanVars, payloadVars, serverVars>>
apiRest_scan == <<canonVars, crawlVars, probeVars, hdrVars, payloadVars, serverVars>>
serverRest == <<canonVars, crawlVars, probeVars, hdrVars, scanVars, payloadVars, apiVars>>

-----------------------------------------------------------------------------
(* Strings *)

EMPTY == <<>>
SLASH == <<"/">>
DSLASH == <<"/", "/">>

-----------------------------------------------------------------------------
(* The parts that do not run in a specification stay in these states *)

CanonIdle ==
    /\ c_pc = "idle"
    /\ c_u = EMPTY /\ c_v = EMPTY /\ c_o = EMPTY /\ c_p = EMPTY
    /\ c_cu = EMPTY /\ c_cv = EMPTY /\ c_ccu = EMPTY

CrawlIdle ==
    /\ pc = "idle"
    /\ cfg = <<>> /\ target = EMPTY /\ site = <<>> /\ cp = <<>>
    /\ q = <<>> /\ visited_keys = {} /\ pages = <<>> /\ fails = 0
    /\ forms = <<>> /\ renderer = "none"
    /\ fetched = <<>> /\ page_depth = <<>> /\ enqueued = {} /\ admission = {}
    /\ failures = <<>>
    /\ put_log = <<>> /\ page_put = <<>> /\ renders = <<>>

ProbeIdle ==
    /\ t_pc = "idle"
    /\ t_url = EMPTY /\ t_param = EMPTY /\ t_payloads = <<>> /\ t_cap = {}
    /\ t_k = 0 /\ tested = 0 /\ baseline = <<>>
    /\ t_result = <<>> /\ t_base = <<>> /\ t_probes = <<>>

HdrIdle ==
    /\ h_pc = "idle"
    /\ h_url = EMPTY /\ h_names = {} /\ h_required = <<>>
    /\ h_k = 0 /\ h_f = <<>>

ScanIdle ==
    /\ s_pc = "idle"
    /\ s_pages = <<>> /\ s_forms = <<>> /\ s_required = <<>>
    /\ s_base = <<>> /\ s_xss = <<>> /\ s_sqli = <<>> /\ s_js = "off" /\ s_at = <<>>
    /\ findings = <<>> /\ s_result = <<>> /\ s_gets = <<>> /\ s_calls = <<>>

PayloadIdle == s_pcfg = <<>> /\ s_cap = {}

ApiIdle ==
    /\ a_pc = "idle"
    /\ a_req = <<>> /\ a_st = <<>> /\ a_now = 0
    /\ a_ran = 0 /\ a_exit = <<>> /\ a_emitted = <<>>

ServerIdle ==
    /\ RUNS = <<>> /\ tasks = <<>> /\ now = 0
    /\ reader = <<>> /\ stream = <<>> /\ written = <<>>

CanonRestIdle == CrawlIdle /\ ProbeIdle /\ HdrIdle /\ ScanIdle /\ PayloadIdle /\ ApiIdle /\ ServerIdle
CrawlRestIdle == CanonIdle /\ ProbeIdle /\ HdrIdle /\ ScanIdle /\ PayloadIdle /\ ApiIdle /\ ServerIdle
ProbeRestIdle == CanonIdle /\ CrawlIdle /\ HdrIdle /\ ScanIdle /\ PayloadIdle /\ ApiIdle /\ ServerIdle
HdrRestIdle == CanonIdle /\ CrawlIdle /\ ProbeIdle /\ ScanIdle /\ PayloadIdle /\ ApiIdle /\ ServerIdle
ScanRestIdle == CanonIdle /\ CrawlIdle /\ ProbeIdle /\ HdrIdle /\ PayloadIdle /\ ApiIdle /\ ServerIdle
PayloadRestIdle == CanonIdle /\ CrawlIdle /\ HdrIdle /\ ApiIdle /\ ServerIdle
ServerRestIdle ==
    CanonIdle /\ CrawlIdle /\ ProbeIdle /\ HdrIdle /\ ScanIdle /\ PayloadIdle /\ ApiIdle
ApiRestIdle == CanonIdle /\ CrawlIdle /\ ProbeIdle /\ HdrIdle /\ ScanIdle /\ PayloadIdle /\ ServerIdle


\* str.lower(), token by token
LowerTok(t) ==
    CASE t = "A" -> "a"
      [] t = "B" -> "b"
      [] t = "C" -> "c"
      [] t = "F" -> "f"
      [] t = "O" -> "o"
      [] t = "P" -> "p"
      [] t = "S" -> "s"
      [] t = "T" -> "t"
      [] t = "X" -> "x"
      [] OTHER -> t

lower(s) == [i \in 1..Len(s) |-> LowerTok(s[i])]

\* str.find(t): the first index of token t in s (1-based), 0 when absent
Find(s, t) ==
    IF \E i \in 1..Len(s) : s[i] = t
    THEN CHOOSE i \in 1..Len(s) : s[i] = t /\ \A j \in 1..(i - 1) : s[j] # t
    ELSE 0

\* the Python operator "sub in s"
contains(s, sub) ==
    \E i \in 1..(Len(s) - Len(sub) + 1) : SubSeq(s, i, i + Len(sub) - 1) = sub

startswith(s, pre) == Len(pre) <= Len(s) /\ SubSeq(s, 1, Len(pre)) = pre

endswith(s, suf) ==
    Len(suf) <= Len(s) /\ SubSeq(s, Len(s) - Len(suf) + 1, Len(s)) = suf

\* s[i:] for a 1-based i
From(s, i) == SubSeq(s, i, Len(s))

\* str.lstrip("/")
RECURSIVE lstrip_slash(_)
lstrip_slash(s) ==
    IF s # EMPTY /\ s[1] = "/" THEN lstrip_slash(Tail(s)) ELSE s

\* str.replace("//", "/"): one left-to-right pass over non-overlapping matches
RECURSIVE replace_dslash(_)
replace_dslash(s) ==
    IF s = EMPTY THEN EMPTY
    ELSE IF startswith(s, DSLASH) THEN SLASH \o replace_dslash(From(s, 3))
    ELSE <<s[1]>> \o replace_dslash(Tail(s))

-----------------------------------------------------------------------------------------------------------------------------------------------------
(* urllib.parse (Python 3.11).  Each step of urlsplit hands what it has   *)
(* split off to the next step as arguments.                                *)

IsAlpha(t) == t \in {"http", "https", "a", "b", "c", "p", "q", "r", "s", "x", "A", "B"}
IsSchemeChar(t) == IsAlpha(t) \/ t = "."
UsesNetloc == {<<"http">>, <<"https">>}

\* if '?' in url: url, query = url.split('?', 1)
split_query(scheme, netloc, url, fragment, m) ==
    [scheme |-> scheme, netloc |-> netloc,
     path |-> IF m > 0 THEN SubSeq(url, 1, m - 1) ELSE url,
     query |-> IF m > 0 THEN From(url, m + 1) ELSE EMPTY,
     fragment |-> fragment]

split_fragment_at(scheme, netloc, url, h) ==
    IF h > 0
    THEN split_query(scheme, netloc, SubSeq(url, 1, h - 1), From(url, h + 1),
                     Find(SubSeq(url, 1, h - 1), "?"))
    ELSE split_query(scheme, netloc, url, EMPTY, Find(url, "?"))

\* if '#' in url: url, fragment = url.split('#', 1)
split_fragment(scheme, netloc, url) == split_fragment_at(scheme, netloc, url, Find(url, "#"))

first_of(hits, default) ==
    IF hits = {} THEN default ELSE CHOOSE i \in hits : \A j \in hits : i <= j

\* _splitnetloc(url, 2): the index of the first of "/", "?", "#" at or after
\* position 3, else Len(url) + 1
NetlocEnd(url) == first_of({i \in 3..Len(url) : url[i] \in {"/", "?", "#"}}, Len(url) + 1)

split_netloc_at(scheme, url, d) == split_fragment(scheme, SubSeq(url, 3, d - 1), From(url, d))

\* if url[:2] == '//': netloc, url = _splitnetloc(url, 2)
split_netloc(scheme, url) ==
    IF startswith(url, DSLASH)
    THEN split_netloc_at(scheme, url, NetlocEnd(url))
    ELSE split_fragment(scheme, EMPTY, url)

\* i = url.find(':'); a scheme is split off when url[:i] is made of scheme characters
split_scheme(url, i) ==
    IF i > 1 /\ IsAlpha(url[1]) /\ \A k \in 1..(i - 1) : IsSchemeChar(url[k])
    THEN split_netloc(lower(SubSeq(url, 1, i - 1)), From(url, i + 1))
    ELSE split_netloc(EMPTY, url)

urlsplit(u) == split_scheme(u, Find(u, ":"))

with_netloc(scheme, netloc, url) ==
    IF netloc # EMPTY \/ (scheme # EMPTY /\ scheme \in UsesNetloc /\ ~startswith(url, DSLASH))
    THEN DSLASH \o netloc \o (IF url # EMPTY /\ url[1] # "/" THEN SLASH \o url ELSE url)
    ELSE url
with_scheme(scheme, url) == IF scheme # EMPTY THEN scheme \o <<":">> \o url ELSE url
with_query(url, query) == IF query # EMPTY THEN url \o <<"?">> \o query ELSE url
with_fragment(url, fragment) == IF fragment # EMPTY THEN url \o <<"#">> \o fragment ELSE url

urlunsplit(scheme, netloc, path, query, fragment) ==
    with_fragment(with_query(with_scheme(scheme, with_netloc(scheme, netloc, path)), query),
                  fragment)

-----------------------------------------------------------------------------
(* Utilities of wvscanner_core.py *)

HTTP_PREFIX == <<"http", ":", "/", "/">>

norm_url(u) == IF urlsplit(u).scheme = EMPTY THEN HTTP_PREFIX \o u ELSE u

without_fragment(p) == urlunsplit(p.scheme, p.netloc, p.path, p.query, EMPTY)

strip_hash(u) == without_fragment(urlsplit(u))

same_host(url_a, url_b) ==
    lower(urlsplit(url_a).netloc) = lower(urlsplit(url_b).netloc)

\* host == allowed or (allowed and host.endswith("." + allowed))
host_matches(host, allowed) ==
    host = allowed \/ (allowed # EMPTY /\ endswith(host, <<".">> \o allowed))

\* allowed_hosts is a sequence of host strings
host_in_allowed(host, allowed_hosts) ==
    \/ allowed_hosts = <<>>
    \/ \E k \in 1..Len(allowed_hosts) : host_matches(lower(host), lower(allowed_hosts[k]))

\* the loop  while "//" in norm: norm = norm.replace("//", "/")
RECURSIVE collapse_slashes(_)
collapse_slashes(norm) ==
    IF contains(norm, DSLASH) THEN collapse_slashes(replace_dslash(norm)) ELSE norm

\* variant: one replace pass instead of the loop
normalize_slash_path_once(path) ==
    IF path = EMPTY THEN SLASH
    ELSE replace_dslash(SLASH \o lstrip_slash(path))

normalize_slash_path(path) ==
    IF path = EMPTY THEN SLASH
    ELSE collapse_slashes(SLASH \o lstrip_slash(path))

\* f"{p.scheme}://{p.netloc}"
origin_of(p) == p.scheme \o <<":", "/", "/">> \o p.netloc

\* variant: the folded route keeps the query string of the input
canonicalize_parts_keepquery(u, p, start_origin, base_path) ==
    IF origin_of(p) = start_origin /\ startswith(p.fragment, SLASH)
    THEN urlunsplit(p.scheme, p.netloc, base_path, p.query, p.fragment)
    ELSE urlunsplit(p.scheme, p.netloc, normalize_slash_path(p.path), p.query, p.fragment)

\* canonicalize_spa after  p = urlsplit(u)  and  base_path = normalize_slash_path(start_path)
canonicalize_parts(u, p, start_origin, base_path) ==
    IF origin_of(p) = start_origin /\ startswith(p.fragment, SLASH)
    THEN urlunsplit(p.scheme, p.netloc, base_path, EMPTY, p.fragment)
    ELSE IF /\ origin_of(p) = start_origin
            /\ contains(u, <<"#">>) /\ p.fragment # EMPTY /\ startswith(p.fragment, SLASH)
            /\ normalize_slash_path(p.path) \notin {SLASH, base_path}
    THEN urlunsplit(p.scheme, p.netloc, base_path, EMPTY, p.fragment)
    ELSE urlunsplit(p.scheme, p.netloc, normalize_slash_path(p.path), p.query, p.fragment)

canonicalize_spa(u, start_origin, start_path) ==
    canonicalize_parts(u, urlsplit(u), start_origin, normalize_slash_path(start_path))

key_of_parts(p) ==
    urlunsplit(p.scheme, p.netloc, normalize_slash_path(p.path), p.query, p.fragment)

canonical_key(u) == key_of_parts(urlsplit(u))

skip_host(host, exclude_domains) ==
    /\ host # EMPTY
    /\ \E k \in 1..Len(exclude_domains) :
          host = exclude_domains[k] \/ endswith(host, <<".">> \o exclude_domains[k])

\* excludes_paths and exclude_domains are sequences of strings
should_skip(href, excludes_paths, exclude_domains) ==
    \/ skip_host(lower(urlsplit(href).netloc), exclude_domains)
    \/ \E k \in 1..Len(excludes_paths) : contains(lower(href), excludes_paths[k])

-----
(* Canonicalizer harness: the inputs are drawn in Init, the functions are  *)
(* applied by the actions.                                                 *)

UrlPrefixes ==
    { EMPTY,
      <<"http", ":">>,
      <<"/", "/", "a">>,
      <<"http", ":", "/", "/", "a">>,
      <<"http", ":", "/", "/", "A">>,
      <<"http", ":", "/", "/", "b">> }

UrlPaths ==
    { EMPTY, SLASH, <<"/", "s">>, <<"p">>, <<"/", "s", "/", "/", "/", "p">> }

UrlQueries == { EMPTY, <<"?">>, <<"?", "q">> }

UrlFragments ==
    { EMPTY, <<"#">>, <<"#", "r">>, <<"#", "/", "r">>, <<"#", "/", "r", "#", "x">> }

CanonInputs ==
    { a \o b \o c \o d : a \in UrlPrefixes, b \in UrlPaths, c \in UrlQueries, d \in UrlFragments }

\* the second URL of a pair is drawn from a smaller set
PairInputs ==
    { a \o b \o c \o d :
        a \in { <<"http", ":", "/", "/", "a">>, <<"http", ":", "/", "/", "b">> },
        b \in { SLASH, <<"/", "p">> },
        c \in { EMPTY, <<"?", "q">> },
        d \in { EMPTY, <<"#", "/", "r">>, <<"#", "r">> } }

StartOrigins == { <<"http", ":", "/", "/", "a">>, <<":", "/", "/", "a">> }
StartPaths == { <<"/", "s">>, <<"s", "/", "/">>, <<"#", "/">> }

CanonInit ==
    /\ c_pc = "in"
    /\ c_u \in CanonInputs
    /\ c_v \in PairInputs
    /\ c_o \in StartOrigins
    /\ c_p \in StartPaths
    /\ c_cu = EMPTY /\ c_cv = EMPTY /\ c_ccu = EMPTY
    /\ CanonRestIdle

Canonicalize ==
    /\ UNCHANGED canonRest
    /\ c_pc = "in"
    /\ c_cu' = canonicalize_spa(c_u, c_o, c_p)
    /\ c_cv' = canonicalize_spa(c_v, c_o, c_p)
    /\ c_pc' = "once"
    /\ UNCHANGED <<c_u, c_v, c_o, c_p, c_ccu>>

Recanonicalize ==
    /\ UNCHANGED canonRest
    /\ c_pc = "once"
    /\ c_ccu' = canonicalize_spa(c_cu, c_o, c_p)
    /\ c_pc' = "twice"
    /\ UNCHANGED <<c_u, c_v, c_o, c_p, c_cu, c_cv>>

CanonNext == Canonicalize \/ Recanonicalize

SpecCanon == CanonInit /\ [][CanonNext]_vars

\* C7 as stated: canonicalize_spa is idempotent for every URL, start origin and
\* start path: applying it to its own result, with the same start origin and
\* start path, returns that result unchanged.
CanonicalizeIdempotent == c_pc = "twice" => c_ccu = c_cu

\* a start path as urlsplit returns it: it holds no "#"
IsUrlPath(path) == ~contains(path, <<"#">>)

\* C7 amended: canonicalize_spa is idempotent for every URL and start origin and
\* for every start path that is the path component of a URL, which is what
\* crawl() passes.
CanonicalizeIdempotentOnPaths == (c_pc = "twice" /\ IsUrlPath(c_p)) => c_ccu = c_cu

\* a same-origin route URL with a query string was folded, then canonicalized again
CanonicalizeIdempotentWitness ==
    /\ c_pc = "twice"
    /\ IsUrlPath(c_p)
    /\ origin_of(urlsplit(c_u)) = c_o
    /\ startswith(urlsplit(c_u).fragment, SLASH)
    /\ urlsplit(c_u).query # EMPTY
    /\ c_cu # c_u

OnStartOrigin(u) == origin_of(urlsplit(u)) = c_o
IsRoute(frag) == startswith(frag, SLASH)

-----------------------------------------------------------------------------
(* The web and the scan configurations the crawl is run on *)

MaxDepth == 2      \* max_depth ranges over 0..MaxDepth
MaxPages == 2      \* max_pages ranges over 0..MaxPages (0: no cap)
MaxFails == 1      \* at most this many fetches raise during one crawl

HOST_a == <<"a">>
HOST_b == <<"b">>

U_s  == <<"http", ":", "/", "/", "a", "/", "s">>
U_p  == <<"http", ":", "/", "/", "a", "/", "p">>
U_pp == <<"http", ":", "/", "/", "a", "/", "/", "p">>
U_pr == <<"http", ":", "/", "/", "a", "/", "p", "#", "/", "r">>
U_r  == <<"http", ":", "/", "/", "a", "/", "#", "/", "r">>
U_x  == <<"http", ":", "/", "/", "a", "/", "x", "/", "p">>
U_Ap == <<"http", ":", "/", "/", "A", "/", "p">>
U_b  == <<"http", ":", "/", "/", "b", "/", "p">>
U_cb == <<"http", ":", "/", "/", "c", ".", "b", "/", "p">>

\* an href urljoin() cannot parse: "http://["
U_bad == <<"http", ":", "/", "/", "[">>

\* the forms with inputs that a page holds
NoForms == <<>>
OneForm == <<"f1">>
TwoForms == <<"f1", "f2">>

\* hrefs that are only a fragment: "#/r" and "#/q"
H_r == <<"#", "/", "r">>
H_q == <<"#", "/", "q">>

\* an element with an href attribute
Elem(tag, href) == [tag |-> tag, href |-> href]

\* <a href=...> elements, in document order
Anchors(hrefs) == [i \in 1..Len(hrefs) |-> Elem("a", hrefs[i])]

\* <form> elements: method and action as written (EMPTY: absent), and the fields
\* <<name, value>> (name EMPTY: none of the name attributes is set)
F_login == [method |-> <<"P", "O", "S", "T">>, action |-> EMPTY,
            fields |-> << << <<"u">>, EMPTY >> >>]
F_find  == [method |-> EMPTY, action |-> <<"http", ":", "/", "/", "a", "/", "p">>,
            fields |-> << << <<"q">>, <<"1">> >>, << EMPTY, <<"2">> >>, << <<"q">>, <<"3">> >> >>]
F_bare  == [method |-> EMPTY, action |-> EMPTY, fields |-> << << EMPTY, <<"1">> >> >>]

\* forms as the renderer reports them (a key may be missing: EMPTY, no inputs: <<>>)
J_reg  == [action |-> EMPTY, method |-> <<"P", "O", "S", "T">>,
           inputs |-> << << <<"r">>, EMPTY >> >>]
J_bare == [action |-> <<"http", ":", "/", "/", "a", "/", "p">>, method |-> EMPTY, inputs |-> <<>>]

\* what render_url gives for a page: it raises, or it returns the rendered document
\* (html: <<>> for an empty string, else its href elements and forms), the links
\* and the forms it collected
Unrendered == <<>>
Rendered(html, links, js_forms) == << [html |-> html, links |-> links, forms |-> js_forms] >>
Document(elems, doc_forms) == << [links |-> elems, forms |-> doc_forms] >>

\* a page: the effective URL of the response, the href elements and the forms of the
\* HTML served, and what rendering the page gives
SpaPage(eff, elems, page_forms, render) ==
    [eff |-> eff, links |-> elems, forms |-> page_forms, render |-> render]

Page(eff, links, page_forms) == SpaPage(eff, Anchors(links), page_forms, Unrendered)

\* a site without redirects: two pages link to the same third page
SiteDiamond ==
    (U_s  :> Page(U_s,  <<U_p, U_pp, U_x, U_pr, U_r, U_b>>, <<F_login>>)) @@
    (U_p  :> Page(U_p,  <<U_x, U_Ap, U_s, U_cb>>, <<F_login, F_find>>)) @@
    (U_x  :> Page(U_x,  <<U_p, U_b>>, NoForms)) @@
    (U_Ap :> Page(U_Ap, <<U_x>>, NoForms)) @@
    (U_b  :> Page(U_b,  <<U_cb, U_p>>, <<F_login>>)) @@
    (U_cb :> Page(U_cb, <<U_b>>, NoForms))

\* a site with redirects that change the host
SiteRedirect ==
    (U_s  :> Page(U_s,  <<U_p, U_b, U_x>>, NoForms)) @@
    (U_p  :> Page(U_b,  <<U_cb, U_x>>, <<F_login>>)) @@
    (U_b  :> Page(U_x,  <<U_p, U_s>>, <<F_login>>)) @@
    (U_x  :> Page(U_x,  <<U_p, U_b>>, <<F_login, F_find>>)) @@
    (U_cb :> Page(U_b,  <<U_s>>, NoForms))

\* a site whose start page holds an href that urljoin() cannot parse
SiteBroken ==
    (U_s  :> Page(U_s,  <<U_p, U_bad>>, <<F_login>>)) @@
    (U_p  :> Page(U_p,  <<U_s>>, NoForms))

Sites == { SiteDiamond, SiteRedirect, SiteBroken }

U_sr == <<"http", ":", "/", "/", "a", "/", "s", "#", "/", "r">>
U_sq == <<"http", ":", "/", "/", "a", "/", "s", "#", "/", "q">>

\* the href elements and the forms of the single-page application served at U_s
SpaElems == << Elem("a", U_x), Elem("a", H_r), Elem("area", H_q) >>
SpaForms == << F_bare, F_find >>

\* a single-page application: U_s serves the application, whose routes "#/r" and
\* "#/q" differ only when rendered; U_x redirects to another host
SiteSpa ==
    (U_s  :> SpaPage(U_s, SpaElems, SpaForms,
                     Rendered(Document(SpaElems, SpaForms), <<U_cb, U_p, U_x>>,
                              <<J_bare, J_reg>>))) @@
    (U_sr :> SpaPage(U_s, SpaElems, SpaForms, Rendered(<<>>, <<U_b>>, <<J_reg>>))) @@
    (U_p  :> Page(U_p, <<U_s>>, <<F_login>>)) @@
    (U_x  :> Page(U_b, <<U_p>>, NoForms)) @@
    (U_b  :> Page(U_b, <<U_bad>>, <<F_login>>)) @@
    (U_cb :> Page(U_s, <<U_p>>, NoForms))

SpaConfigs ==
    [ same_host_only        : BOOLEAN,
      allow_global_scan_flag: {TRUE},
      follow_redirect_hosts : BOOLEAN,
      allowed_hosts         : { <<>> },
      max_depth             : 0..MaxDepth,
      max_pages             : 0..MaxPages,
      excl_paths            : { <<>> },
      excl_domains          : { <<>> } ]

\* the response to a successful GET of fetch_url
Response(fetch_url) ==
    IF fetch_url \in DOMAIN site THEN site[fetch_url] ELSE Page(fetch_url, <<>>, NoForms)

Targets == { U_s, <<"a", "/", "s">> }

Configs ==
    [ same_host_only        : BOOLEAN,
      allow_global_scan_flag: BOOLEAN,
      follow_redirect_hosts : BOOLEAN,
      allowed_hosts         : { <<>>, <<HOST_b>>, <<HOST_a, HOST_b>> },
      max_depth             : 0..MaxDepth,
      max_pages             : 0..MaxPages,
      excl_paths            : { <<>>, << <<"/", "x">> >> },
      excl_domains          : { <<>>, <<HOST_b>> } ]

-----------------------------------------------------------------------------
(* run_scan: the arguments it passes to crawl() *)

\* variant: the configured flag is taken as it is
same_host_only_cfg_unforced(c) == c.same_host_only

\* same_host_only is forced unless safety.allow_global_scan_flag is set
same_host_only_cfg(c) ==
    IF ~c.same_host_only /\ ~c.allow_global_scan_flag THEN TRUE ELSE c.same_host_only

crawl_args(c) ==
    [ max_depth             |-> c.max_depth,
      same_host_only        |-> same_host_only_cfg(c),
      excludes_paths        |-> c.excl_paths,
      exclude_domains       |-> c.excl_domains,
      follow_redirect_hosts |-> c.follow_redirect_hosts,
      allowed_hosts         |-> c.allowed_hosts,
      max_pages             |-> c.max_pages ]

-----------------------------------------------------------------------------------------------------------------------------------------------------
(* crawl() *)

start_url == norm_url(target)
start_split == urlsplit(start_url)
start_origin == origin_of(start_split)
start_path == normalize_slash_path(start_split.path)
start_host == lower(start_split.netloc)

host_of(u) == lower(urlsplit(u).netloc)

Range(f) == { f[i] : i \in DOMAIN f }

\* dedupe preserving order: the first occurrence of every entry
RECURSIVE dedup(_, _)
dedup(out, seen) ==
    IF out = <<>> THEN <<>>
    ELSE IF Head(out) \in seen THEN dedup(Tail(out), seen)
    ELSE <<Head(out)>> \o dedup(Tail(out), seen \cup {Head(out)})

\* a dict is the sequence of its <<key, value>> pairs in insertion order
dict_has(d, k) == \E i \in 1..Len(d) : d[i][1] = k

dict_set(d, k, v) ==
    IF dict_has(d, k)
    THEN [i \in 1..Len(d) |-> IF d[i][1] = k THEN <<k, v>> ELSE d[i]]
    ELSE Append(d, <<k, v>>)

\* dict(pairs): a later pair replaces the value of an earlier one with the same key
RECURSIVE dict_from(_, _)
dict_from(pairs, d) ==
    IF pairs = <<>> THEN d
    ELSE dict_from(Tail(pairs), dict_set(d, Head(pairs)[1], Head(pairs)[2]))

dict(pairs) == dict_from(pairs, <<>>)

\* d.get(k), EMPTY when k is absent
RECURSIVE dict_get(_, _)
dict_get(d, k) ==
    IF d = <<>> THEN EMPTY
    ELSE IF Head(d)[1] = k THEN Head(d)[2]
    ELSE dict_get(Tail(d), k)

\* variant: the depth of an item is not looked at
skip_item_any_depth(key, depth) == key \in visited_keys

\* if key in visited_keys or depth > max_depth: continue
skip_item(key, depth) == key \in visited_keys \/ depth > cp.max_depth

\* the redirect-host policy drops the page
redirect_dropped(cross) == cross /\ ~cp.follow_redirect_hosts

\* variant: an allowed host is admitted whatever same_host_only says
page_rejected_override(url) ==
    IF cp.allowed_hosts # <<>>
    THEN ~host_in_allowed(host_of(url), cp.allowed_hosts)
    ELSE cp.same_host_only /\ host_of(url) # start_host

\* the same-host and the allowed-host filter applied to a fetched page
page_rejected(url) ==
    \/ (cp.same_host_only /\ host_of(url) # start_host)
    \/ ~host_in_allowed(host_of(url), cp.allowed_hosts)

\* variant: the cap is compared with > instead of >=
cap_reached_late(npages) == cp.max_pages # 0 /\ npages > cp.max_pages

\* if max_pages and len(pages) >= max_pages: break
cap_reached(npages) == cp.max_pages # 0 /\ npages >= cp.max_pages

\* the filters a fresh link candidate passes before q.put
link_admitted(cand) ==
    /\ ~should_skip(cand, <<>>, <<>>)
    /\ host_in_allowed(host_of(cand), cp.allowed_hosts)
    /\ ~(cp.same_host_only /\ ~same_host(start_url, cand))

\* q.put((cand, depth + 1))
child_item(cand, depth) == [url |-> cand, depth |-> depth + 1]

\* the candidates, canonicalized, that are neither empty, nor visited, nor seen
\* earlier on this page
\* (every candidate is [href, src]; src names the loop that appended it)
RECURSIVE fresh_candidates(_, _, _)
fresh_step(hrefs, seen_local, visited, cand, ckey) ==
    IF Head(hrefs).href = EMPTY \/ ckey \in seen_local \/ ckey \in visited
    THEN fresh_candidates(Tail(hrefs), seen_local, visited)
    ELSE <<[url |-> cand, src |-> Head(hrefs).src]>>
         \o fresh_candidates(Tail(hrefs), seen_local \cup {ckey}, visited)
fresh_cand(hrefs, seen_local, visited, cand) ==
    fresh_step(hrefs, seen_local, visited, cand, canonical_key(cand))
fresh_candidates(hrefs, seen_local, visited) ==
    IF hrefs = <<>> THEN <<>>
    ELSE fresh_cand(hrefs, seen_local, visited,
                    canonicalize_spa(Head(hrefs).href, start_origin, start_path))

\* urllib.parse.urljoin(base, url), for the references the pages of the model hold: an
\* absolute URL or one that starts with "//" is put together again from its parts, a
\* reference without a path takes path (and, if it has none, query) from the base
urljoin_parts(base, url, b, u) ==
    IF u.scheme # EMPTY /\ u.scheme # b.scheme THEN url
    ELSE IF u.netloc # EMPTY
    THEN urlunsplit(b.scheme, u.netloc, u.path, u.query, u.fragment)
    ELSE IF u.path = EMPTY
    THEN urlunsplit(b.scheme, b.netloc, b.path,
                    IF u.query = EMPTY THEN b.query ELSE u.query, u.fragment)
    ELSE urlunsplit(b.scheme, b.netloc, u.path, u.query, u.fragment)

urljoin(base, url) ==
    IF url = EMPTY THEN base
    ELSE IF base = EMPTY THEN url
    ELSE urljoin_parts(base, url, urlsplit(base), urlsplit(url))

\* url.split("#", 1)[0]
before_hash(url) == IF Find(url, "#") = 0 THEN url ELSE SubSeq(url, 1, Find(url, "#") - 1)

from_source(list, src) == [i \in 1..Len(list) |-> [href |-> list[i], src |-> src]]

\* for a in soup.find_all("a", href=True): urljoin(url, a["href"])
static_anchors(url, elems) ==
    [i \in 1..Len(SelectSeq(elems, LAMBDA e : e.tag = "a")) |->
        urljoin(url, SelectSeq(elems, LAMBDA e : e.tag = "a")[i].href)]

\* for a in soup.find_all(href=True): if href.startswith("#"): base + href
hash_anchors(url, elems) ==
    [i \in 1..Len(SelectSeq(elems, LAMBDA e : startswith(e.href, <<"#">>))) |->
        before_hash(url) \o SelectSeq(elems, LAMBDA e : startswith(e.href, <<"#">>))[i].href]

\* variant: static anchors, then hash anchors, then the renderer's links
link_candidates_static_first(url, js_links, elems) ==
    from_source(static_anchors(url, elems), "a")
    \o from_source(hash_anchors(url, elems), "hash")
    \o from_source(js_links, "js")

\* link_candidates: the renderer's links, then the static anchors, then the hash anchors
link_candidates(url, js_links, elems) ==
    from_source(js_links, "js")
    \o from_source(static_anchors(url, elems), "a")
    \o from_source(hash_anchors(url, elems), "hash")

GET_METHOD == <<"g", "e", "t">>

\* the inputs dict of a static form: fields without a name are left out
named_inputs(fields) == dict(SelectSeq(fields, LAMBDA f : f[1] # EMPTY))

\* a form of the renderer, as it is recorded
js_form(url, jf) ==
    [action |-> IF jf.action = EMPTY THEN url ELSE jf.action,
     method |-> lower(IF jf.method = EMPTY THEN GET_METHOD ELSE jf.method),
     inputs |-> jf.inputs]

\* a <form> of the parsed document, as it is recorded
static_form(url, form) ==
    [action |-> urljoin(url, IF form.action = EMPTY THEN url ELSE form.action),
     method |-> lower(IF form.method = EMPTY THEN GET_METHOD ELSE form.method),
     inputs |-> named_inputs(form.fields)]

js_page_forms(url, js_forms) ==
    SelectSeq([i \in 1..Len(js_forms) |-> js_form(url, js_forms[i])], LAMBDA f : f.inputs # <<>>)

static_page_forms(url, doc_forms) ==
    SelectSeq([i \in 1..Len(doc_forms) |-> static_form(url, doc_forms[i])],
              LAMBDA f : f.inputs # <<>>)

\* variant: the forms of the document first
extract_forms_static_first(url, js_forms, doc_forms) ==
    static_page_forms(url, doc_forms) \o js_page_forms(url, js_forms)

\* page_forms: the renderer's forms that have inputs, then those of the document
extract_forms(url, js_forms, doc_forms) ==
    js_page_forms(url, js_forms) \o static_page_forms(url, doc_forms)

\* result = render_url(js_browser, url, ...) when js_browser is not None: <<>> when
\* the renderer is not used or render_url raises
render_url(url) ==
    IF renderer = "open" /\ url \in DOMAIN site THEN site[url].render ELSE Unrendered

\* variant: without rendered text there is no document to parse
soup_of_rendered_only(resp, r) ==
    IF r # <<>> /\ r[1].html # <<>> THEN r[1].html[1]
    ELSE [links |-> <<>>, forms |-> <<>>]

\* dom_html = rendered_html if rendered_html else raw_html; soup = BeautifulSoup(dom_html)
soup_of(resp, r) ==
    IF r # <<>> /\ r[1].html # <<>> THEN r[1].html[1]
    ELSE [links |-> resp.links, forms |-> resp.forms]

\* The frontier item being processed: its canonical url and key, the response to
\* the GET of strip_hash(url), and url and key as they are once the redirect-host
\* policy has let the page through.
\* (links, forms: of the parsed document; js_links, js_forms: of the renderer)
item_soup(url, key, depth, cross, eff_url, r, soup) ==
    [url |-> url, key |-> key, depth |-> depth, links |-> soup.links,
     forms |-> soup.forms, cross |-> cross,
     js_links |-> IF r = <<>> THEN <<>> ELSE r[1].links,
     js_forms |-> IF r = <<>> THEN <<>> ELSE r[1].forms,
     eff_url |-> eff_url, eff_key |-> canonical_key(eff_url)]
item_render(url, key, depth, resp, cross, eff_url, r) ==
    item_soup(url, key, depth, cross, eff_url, r, soup_of(resp, r))
item_eff(url, key, depth, resp, cross, eff_url) ==
    item_render(url, key, depth, resp, cross, eff_url, render_url(eff_url))
item_resp(url, depth, resp, cross) ==
    item_eff(url, canonical_key(url), depth, resp, cross,
             IF cross THEN canonicalize_spa(resp.eff, start_origin, start_path) ELSE url)
item_url(url, depth) ==
    item_resp(url, depth, Response(strip_hash(url)),
              host_of(Response(strip_hash(url)).eff) # host_of(url))
item == item_url(canonicalize_spa(Head(q).url, start_origin, start_path), Head(q).depth)

\* (verdict: what became of the response: "dropped" by the redirect-host policy,
\* "rejected" by a host filter, or appended as a "page")
fetch_of(it, verdict) ==
    [key |-> it.key, depth |-> it.depth, url |-> it.url, ok |-> TRUE, verdict |-> verdict]

\* the GET that raised
failed_fetch_of(it) ==
    [key |-> it.key, depth |-> it.depth, url |-> it.url, ok |-> FALSE, verdict |-> "failed"]

\* urlsplit raises ValueError("Invalid IPv6 URL")
invalid_netloc(netloc) == contains(netloc, <<"[">>) # contains(netloc, <<"]">>)

\* urljoin(url, a["href"]) raises for one of the anchors of the page
urljoin_raises(elems) ==
    \E i \in 1..Len(elems) :
        elems[i].tag = "a" /\ invalid_netloc(urlsplit(elems[i].href).netloc)

\* if use_js: js_browser_ctx = js_context(...); js_browser = js_browser_ctx.__enter__()
open_renderer(use_js, entered) == IF use_js /\ entered THEN "open" ELSE "none"

\* if js_browser_ctx is not None: js_browser_ctx.__exit__(None, None, None)
close_renderer(r) == IF r = "open" THEN "closed" ELSE r

\* if page_forms: forms[url] = page_forms
with_forms(d, url, page_forms) == IF page_forms # <<>> THEN dict_set(d, url, page_forms) ELSE d

\* the frontier item at the head of q is the one put there by this q.put (q is FIFO)
head_put == Len(put_log) - Len(q) + 1

\* variant: a stack, the items just found are taken next
enqueue_first(rest, items) == items \o rest

\* q.put(...) for every admitted candidate, after the items already waiting
enqueue(rest, items) == rest \o items

\* render_url(js_browser, url, ...) is called when js_browser is not None
rendered(log, url) == IF renderer = "open" THEN Append(log, url) ELSE log

\* variant: the loop goes on after the page that reached the cap
after_cap_continue == "loop"

\* if max_pages and len(pages) >= max_pages: break
after_cap == "done"

\* variant: a fetch that raised marks the key as visited
visited_after_failure_marked(keys, key) == keys \cup {key}

\* except Exception: log.warning(...); continue
visited_after_failure(keys, key) == keys

CrawlInit ==
    /\ pc = "init"
    /\ cfg \in Configs
    /\ target \in Targets
    /\ site \in Sites
    /\ cp = <<>>
    /\ q = <<>> /\ visited_keys = {} /\ pages = <<>> /\ fails = 0
    /\ forms = <<>> /\ renderer = "none"
    /\ fetched = <<>> /\ page_depth = <<>> /\ enqueued = {} /\ admission = {}
    /\ failures = <<>>
    /\ put_log = <<>> /\ page_put = <<>> /\ renders = <<>>
    /\ CrawlRestIdle

\* run_scan builds the arguments and calls crawl(), which seeds the frontier
crawl_start ==
    /\ pc = "init"
    /\ cp' = crawl_args(cfg)
    /\ q' = << [url |-> start_url, depth |-> 0] >>
    /\ enqueued' = { [url |-> start_url, depth |-> 0, parent |-> -1] }
    /\ put_log' = << [url |-> start_url, depth |-> 0, src |-> "seed", page |-> 0] >>
    /\ \E use_js \in BOOLEAN, entered \in BOOLEAN : renderer' = open_renderer(use_js, entered)
    /\ pc' = "loop"
    /\ UNCHANGED <<inputVars, visited_keys, pages, forms, fails, fetched, page_depth, admission,
                   failures, page_put, renders>>
    /\ UNCHANGED crawlRest

\* the dequeued item is already visited or too deep
crawl_skip ==
    /\ pc = "loop" /\ q # <<>>
    /\ \E it \in {item} : skip_item(it.key, it.depth)
    /\ q' = Tail(q)
    /\ UNCHANGED <<pc, inputVars, cp, visited_keys, pages, forms, renderer, fails, histVars>>
    /\ UNCHANGED crawlRest

\* session.get raises
crawl_fetch_failed ==
    /\ pc = "loop" /\ q # <<>>
    /\ fails < MaxFails
    /\ \E it \in {item} :
          /\ ~skip_item(it.key, it.depth)
          /\ fetched' = Append(fetched, failed_fetch_of(it))
          /\ visited_keys' = visited_after_failure(visited_keys, it.key)
    /\ fails' = fails + 1
    /\ q' = Tail(q)
    /\ UNCHANGED <<pc, inputVars, cp, pages, forms, renderer, page_depth, enqueued, admission,
                   orderVars>>
    /\ failures' = Append(failures,
           [before |-> [pages |-> pages, forms |-> forms, visited |-> visited_keys, rest |-> Tail(q)],
            after  |-> [pages |-> pages', forms |-> forms', visited |-> visited_keys', rest |-> q'],
            pc     |-> pc'])
    /\ UNCHANGED crawlRest

\* the response came from another host and follow_redirect_hosts is false
crawl_redirect_dropped ==
    /\ pc = "loop" /\ q # <<>>
    /\ \E it \in {item} :
          /\ ~skip_item(it.key, it.depth)
          /\ redirect_dropped(it.cross)
          /\ fetched' = Append(fetched, fetch_of(it, "dropped"))
          /\ visited_keys' = visited_keys \cup {it.key}
    /\ q' = Tail(q)
    /\ UNCHANGED <<pc, inputVars, cp, pages, forms, renderer, fails, page_depth, enqueued, admission,
                   failures, orderVars>>
    /\ UNCHANGED crawlRest

\* the page is rejected by the same-host or the allowed-host filter
crawl_page_rejected ==
    /\ pc = "loop" /\ q # <<>>
    /\ \E it \in {item} :
          /\ ~skip_item(it.key, it.depth)
          /\ ~redirect_dropped(it.cross)
          /\ page_rejected(it.eff_url)
          /\ fetched' = Append(fetched, fetch_of(it, "rejected"))
          /\ admission' = admission \cup
                 { [kind |-> "page", url |-> it.eff_url, admitted |-> FALSE] }
          /\ visited_keys' = visited_keys \cup {it.eff_key}
    /\ q' = Tail(q)
    /\ UNCHANGED <<pc, inputVars, cp, pages, forms, renderer, fails, page_depth, enqueued, failures,
                   orderVars>>
    /\ UNCHANGED crawlRest

\* the page is appended and the page cap is reached: break, then return
crawl_cap_reached ==
    /\ pc = "loop" /\ q # <<>>
    /\ cap_reached(Len(pages) + 1)
    /\ \E it \in {item} :
          /\ ~skip_item(it.key, it.depth)
          /\ ~redirect_dropped(it.cross)
          /\ ~page_rejected(it.eff_url)
          /\ fetched' = Append(fetched, fetch_of(it, "page"))
          /\ admission' = admission \cup
                 { [kind |-> "page", url |-> it.eff_url, admitted |-> TRUE] }
          /\ visited_keys' = visited_keys \cup {it.eff_key}
          /\ pages' = Append(pages, it.eff_url)
          /\ page_depth' = Append(page_depth, it.depth)
    /\ page_put' = Append(page_put, head_put)
    /\ q' = Tail(q)
    /\ renderer' = close_renderer(renderer)
    /\ pc' = after_cap
    /\ UNCHANGED <<inputVars, cp, forms, fails, enqueued, failures, put_log, renders>>
    /\ UNCHANGED crawlRest

\* the page is appended and its links are enqueued
crawl_page_processed ==
    /\ pc = "loop" /\ q # <<>>
    /\ ~cap_reached(Len(pages) + 1)
    /\ \E it \in {item} :
          /\ ~skip_item(it.key, it.depth)
          /\ ~redirect_dropped(it.cross)
          /\ ~page_rejected(it.eff_url)
          /\ ~urljoin_raises(it.links)
          /\ forms' = with_forms(forms, it.eff_url,
                                 extract_forms(it.eff_url, it.js_forms, it.forms))
          /\ fetched' = Append(fetched, fetch_of(it, "page"))
          /\ visited_keys' = visited_keys \cup {it.eff_key}
          /\ pages' = Append(pages, it.eff_url)
          /\ page_depth' = Append(page_depth, it.depth)
          /\ renders' = rendered(renders, it.eff_url)
          /\ \E fresh \in {fresh_candidates(link_candidates(it.eff_url, it.js_links, it.links),
                                              {}, visited_keys \cup {it.eff_key})} :
             \E puts \in {SelectSeq(fresh, LAMBDA c : link_admitted(c.url))} :
                /\ q' = enqueue(Tail(q), [i \in 1..Len(puts) |-> child_item(puts[i].url, it.depth)])
                /\ enqueued' = enqueued \cup
                       { [url |-> child_item(c.url, it.depth).url,
                          depth |-> child_item(c.url, it.depth).depth,
                          parent |-> it.depth] : c \in Range(puts) }
                /\ put_log' = put_log \o
                       [i \in 1..Len(puts) |->
                           [url |-> puts[i].url, depth |-> it.depth + 1, src |-> puts[i].src,
                            page |-> Len(pages) + 1]]
                /\ admission' = admission
                       \cup { [kind |-> "page", url |-> it.eff_url, admitted |-> TRUE] }
                       \cup { [kind |-> "link", url |-> c.url, admitted |-> c \in Range(puts)] :
                              c \in Range(fresh) }
    /\ page_put' = Append(page_put, head_put)
    /\ UNCHANGED <<pc, inputVars, cp, renderer, fails, failures>>
    /\ UNCHANGED crawlRest

\* the page is appended and collecting its links raises: crawl() is left by the
\* exception
crawl_page_raised ==
    /\ pc = "loop" /\ q # <<>>
    /\ ~cap_reached(Len(pages) + 1)
    /\ \E it \in {item} :
          /\ ~skip_item(it.key, it.depth)
          /\ ~redirect_dropped(it.cross)
          /\ ~page_rejected(it.eff_url)
          /\ urljoin_raises(it.links)
          /\ forms' = with_forms(forms, it.eff_url,
                                 extract_forms(it.eff_url, it.js_forms, it.forms))
          /\ renders' = rendered(renders, it.eff_url)
          /\ fetched' = Append(fetched, fetch_of(it, "page"))
          /\ admission' = admission \cup
                 { [kind |-> "page", url |-> it.eff_url, admitted |-> TRUE] }
          /\ visited_keys' = visited_keys \cup {it.eff_key}
          /\ pages' = Append(pages, it.eff_url)
          /\ page_depth' = Append(page_depth, it.depth)
    /\ page_put' = Append(page_put, head_put)
    /\ q' = Tail(q)
    /\ pc' = "raised"
    /\ UNCHANGED <<inputVars, cp, renderer, fails, enqueued, failures, put_log>>
    /\ UNCHANGED crawlRest

\* the frontier is empty: crawl() returns pages
crawl_return ==
    /\ pc = "loop" /\ q = <<>>
    /\ renderer' = close_renderer(renderer)
    /\ pc' = "done"
    /\ UNCHANGED <<inputVars, cp, q, visited_keys, pages, forms, fails, histVars>>
    /\ UNCHANGED crawlRest

CrawlNext ==
    \/ crawl_start
    \/ crawl_skip
    \/ crawl_fetch_failed
    \/ crawl_redirect_dropped
    \/ crawl_page_rejected
    \/ crawl_cap_reached
    \/ crawl_page_processed
    \/ crawl_page_raised
    \/ crawl_return

Spec == CrawlInit /\ [][CrawlNext]_vars

\* the crawl of the single-page application
SpaInit ==
    /\ pc = "init"
    /\ cfg \in SpaConfigs
    /\ target = U_s
    /\ site = SiteSpa
    /\ cp = <<>>
    /\ q = <<>> /\ visited_keys = {} /\ pages = <<>> /\ fails = 0
    /\ forms = <<>> /\ renderer = "none"
    /\ fetched = <<>> /\ page_depth = <<>> /\ enqueued = {} /\ admission = {}
    /\ failures = <<>>
    /\ put_log = <<>> /\ page_put = <<>> /\ renders = <<>>
    /\ CrawlRestIdle

SpecSpa == SpaInit /\ [][CrawlNext]_vars

-----------------------------------------------------------------------------
(* Claims about the crawl *)

Started == pc \in {"loop", "done"}

\* C1: during one crawl no two GETs of frontier items are issued for URLs that
\* share a canonical key.
NoDuplicateFetch ==
    \A i, j \in 1..Len(fetched) : i < j => fetched[i].key # fetched[j].key

\* C2: the seed is enqueued at depth 0, every link enqueued from a processed page
\* has that page's depth + 1, and no item deeper than max_depth is fetched or
\* appended to pages.
DepthBound ==
    Started =>
        /\ [url |-> start_url, depth |-> 0, parent |-> -1] \in enqueued
        /\ \A e \in enqueued : e.depth = e.parent + 1
        /\ \A i \in 1..Len(q) : \E e \in enqueued : e.url = q[i].url /\ e.depth = q[i].depth
        /\ \A i \in 1..Len(fetched) : fetched[i].depth <= cp.max_depth
        /\ \A i \in 1..Len(page_depth) : page_depth[i] <= cp.max_depth

\* the crawl ran to an empty frontier, pages of the deepest allowed level were
\* processed, and links found on them were enqueued one level too deep and skipped
DepthBoundWitness ==
    /\ pc = "done" /\ q = <<>>
    /\ cp.max_depth = 1
    /\ \E i \in 1..Len(page_depth) : page_depth[i] = 1
    /\ \E e \in enqueued : e.depth = 2

\* C3 as stated: for every max_pages n the pages list never has more than n entries.
PageCountBound == Started => Len(pages) <= cp.max_pages

\* C3 amended: for every positive max_pages n the pages list never has more than
\* n entries (max_pages = 0 means no cap).
PageCountBoundPositive == (Started /\ cp.max_pages > 0) => Len(pages) <= cp.max_pages

\* the cap stopped the crawl with items left in the frontier
PageCountBoundWitness ==
    /\ pc = "done" /\ q # <<>>
    /\ cp.max_pages = 2 /\ Len(pages) = 2

\* C4: unless safety.allow_global_scan_flag is set, crawl() is called with
\* same_host_only true and every page has the host of the target, compared
\* case-insensitively, whatever same_host_only, allowed_hosts and
\* follow_redirect_hosts are configured to.
HostRestrictedByDefault ==
    (Started /\ ~cfg.allow_global_scan_flag) =>
        /\ cp.same_host_only
        /\ \A i \in 1..Len(pages) :
              lower(urlsplit(pages[i]).netloc) = lower(urlsplit(norm_url(target)).netloc)

\* same_host_only configured off without the flag, another host allowed and
\* redirects to other hosts followed: pages were crawled, links to the other host
\* were turned down, and a page on the target host in other letter case was kept
HostRestrictedByDefaultWitness ==
    /\ pc = "done"
    /\ ~cfg.allow_global_scan_flag /\ ~cfg.same_host_only
    /\ cfg.follow_redirect_hosts /\ cfg.allowed_hosts = <<HOST_a, HOST_b>>
    /\ \E a \in admission : ~a.admitted /\ lower(urlsplit(a.url).netloc) = HOST_b
    /\ \E i \in 1..Len(pages) : urlsplit(pages[i]).netloc = <<"A">>

\* C5: a discovered link that matches exclusions.domains or exclusions.paths is
\* never enqueued and never fetched.
ExcludedNeverCrawled ==
    /\ \A e \in enqueued :
          e.parent >= 0 => ~should_skip(e.url, cfg.excl_paths, cfg.excl_domains)
    /\ \A i \in 1..Len(fetched) :
          fetched[i].depth > 0 => ~should_skip(fetched[i].url, cfg.excl_paths, cfg.excl_domains)

AllowedHost(u) == host_in_allowed(lower(urlsplit(u).netloc), cp.allowed_hosts)
OnStartHost(u) == lower(urlsplit(u).netloc) = lower(urlsplit(norm_url(target)).netloc)

\* C6 as stated: with a non-empty allowed_hosts, a page or link whose host is in
\* allowed_hosts is admitted even when same_host_only is true and its host is not
\* the start host.
AllowedHostsOverride ==
    (Started /\ cp.allowed_hosts # <<>>) =>
        \A a \in admission : AllowedHost(a.url) => a.admitted

\* C6 amended: allowed_hosts does not override same_host_only, the two filters
\* are both applied: a page or link is admitted iff its host is in allowed_hosts
\* (always true for an empty list) and, when same_host_only is true, its host is
\* the start host.
AllowedHostsAndSameHost ==
    Started =>
        \A a \in admission :
            a.admitted <=> (AllowedHost(a.url) /\ (cp.same_host_only => OnStartHost(a.url)))

\* same_host_only on, the other host allowed: a link to it and a page redirected
\* to it were turned down, a page on the start host was admitted
AllowedHostsAndSameHostWitness ==
    /\ pc = "done"
    /\ cp.same_host_only /\ cp.allowed_hosts = <<HOST_a, HOST_b>>
    /\ \E a \in admission :
          a.kind = "link" /\ ~a.admitted /\ AllowedHost(a.url) /\ ~OnStartHost(a.url)
    /\ \E a \in admission :
          a.kind = "page" /\ ~a.admitted /\ AllowedHost(a.url) /\ ~OnStartHost(a.url)
    /\ \E a \in admission : a.kind = "page" /\ a.admitted

\* C14: a page fetch that raises is never fatal: the step leaves pages, forms and
\* the visited set unchanged, the loop goes on with the rest of the frontier, and
\* crawl() returns only when the frontier is empty or the page cap is reached.
FetchFailureNotFatal ==
    /\ Len(failures) = fails
    /\ \A i \in 1..Len(failures) :
          /\ failures[i].after = failures[i].before
          /\ failures[i].pc = "loop"
    /\ (fails > 0 /\ pc = "done") => (q = <<>> \/ cap_reached(Len(pages)))

\* a page is fetched and appended after an earlier fetch raised, and crawl() returned
FetchFailureNotFatalWitness ==
    /\ pc = "done"
    /\ \E i, j \in 1..Len(fetched) :
          /\ i < j /\ ~fetched[i].ok /\ fetched[j].ok
          /\ \E k \in 1..Len(pages) : canonical_key(pages[k]) = fetched[j].key

\* the renderer was opened
RendererOpened == renderer \in {"open", "closed"}

\* C17: whenever crawl() opened the renderer, the renderer is closed when crawl()
\* is left: by frontier exhaustion, by the page cap, or by an exception raised
\* inside the loop.
RendererReleased ==
    (pc \in {"done", "raised"} /\ RendererOpened) => renderer = "closed"

\* C23: the pages list returned by crawl() is in breadth-first discovery order: the
\* depths at which successive pages were dequeued are non-decreasing, and pages
\* (of equal depth, and so all pages) appear in the order in which their frontier
\* items were enqueued.
BfsOrder ==
    /\ Len(page_put) = Len(pages) /\ Len(page_depth) = Len(pages)
    /\ \A i, j \in 1..Len(pages) :
          i < j => (page_depth[i] <= page_depth[j] /\ page_put[i] < page_put[j])
    /\ \A i \in 1..Len(pages) :
          /\ page_put[i] \in 1..Len(put_log)
          /\ put_log[page_put[i]].depth = page_depth[i]

\* crawl() returned pages of three depths, two of them of depth 1 that were
\* found on the same page
BfsOrderWitness ==
    /\ pc = "done"
    /\ \E i, j, k \in 1..Len(pages) :
          /\ page_depth[1] = 0 /\ page_depth[k] = 2
          /\ i < j /\ page_depth[i] = 1 /\ page_depth[j] = 1
          /\ put_log[page_put[i]].page = put_log[page_put[j]].page

\* the place of a link source in the order the claim gives
StaticFirstRank(src) == CASE src = "a" -> 1 [] src = "hash" -> 2 [] src = "js" -> 3 [] OTHER -> 0

\* the place of a link source in the order of link_candidates
RendererFirstRank(src) == CASE src = "js" -> 1 [] src = "a" -> 2 [] src = "hash" -> 3 [] OTHER -> 0

\* C27 as stated: for each processed page, the links are enqueued in the order static
\* anchors, then hash anchors, then renderer-discovered links.
LinkOrderStaticFirst ==
    \A k, l \in 1..Len(put_log) :
        (k < l /\ put_log[k].page = put_log[l].page) =>
            StaticFirstRank(put_log[k].src) <= StaticFirstRank(put_log[l].src)

\* C27 amended: for each processed page, the links are enqueued in the order
\* renderer-discovered links, then static anchors, then hash anchors.
LinkOrderRendererFirst ==
    \A k, l \in 1..Len(put_log) :
        (k < l /\ put_log[k].page = put_log[l].page) =>
            RendererFirstRank(put_log[k].src) <= RendererFirstRank(put_log[l].src)

\* one page had links of all three sources enqueued
LinkOrderRendererFirstWitness ==
    \E n \in 1..Len(pages) :
        \A src \in {"js", "a", "hash"} :
            \E k \in 1..Len(put_log) : put_log[k].page = n /\ put_log[k].src = src

\* the recorded form was reported by the renderer / was parsed from the document
FromRenderer(f) == \E jf \in {J_reg, J_bare} : jf.inputs = f.inputs
FromDocument(f) == \E sf \in {F_login, F_find, F_bare} : named_inputs(sf.fields) = f.inputs

\* the pages render_url returned a result for
RenderedPages == { u \in Range(renders) : u \in DOMAIN site /\ site[u].render # <<>> }

\* C28: every recorded form list holds the renderer's forms before any form of the
\* static HTML, every recorded form has at least one named field, its method is in
\* lower case, and no page is recorded with an empty form list; the renderer's
\* forms that have inputs are all recorded.
FormRecording ==
    /\ \A e \in 1..Len(forms) :
          /\ forms[e][2] # <<>>
          /\ \A k \in 1..Len(forms[e][2]) :
                /\ forms[e][2][k].inputs # <<>>
                /\ \A n \in 1..Len(forms[e][2][k].inputs) : forms[e][2][k].inputs[n][1] # EMPTY
                /\ forms[e][2][k].method = lower(forms[e][2][k].method)
                /\ forms[e][2][k].method # EMPTY
                /\ FromRenderer(forms[e][2][k]) \/ FromDocument(forms[e][2][k])
          /\ \A k, l \in 1..Len(forms[e][2]) :
                (k < l /\ FromRenderer(forms[e][2][l])) => FromRenderer(forms[e][2][k])
    /\ \A u \in RenderedPages :
          \A n \in 1..Len(site[u].render[1].forms) :
              site[u].render[1].forms[n].inputs # <<>> =>
                  \E k \in 1..Len(dict_get(forms, u)) :
                      dict_get(forms, u)[k].inputs = site[u].render[1].forms[n].inputs

\* a page is recorded with a form of the renderer before a form of the document,
\* and a processed page that has no form with a named field is not recorded
FormRecordingWitness ==
    /\ \E e \in 1..Len(forms) :
          /\ Len(forms[e][2]) = 2
          /\ FromRenderer(forms[e][2][1]) /\ FromDocument(forms[e][2][2])
          /\ forms[e][2][1].method = <<"p", "o", "s", "t">>
    /\ \E i \in 1..Len(pages) : i < Len(pages) /\ ~dict_has(forms, pages[i])

\* C29 as stated: when a fetched frontier item is rejected by policy (cross-host
\* redirect not followed, host other than the start host under same_host_only, host
\* not in allowed_hosts), its canonical key is added to the visited set, nothing is
\* appended to pages, no forms or links are taken from it, and the same key is
\* never fetched again in that crawl.
PolicyRejectionMarksVisited ==
    /\ [][(Len(fetched') = Len(fetched) + 1
            /\ fetched'[Len(fetched')].verdict \in {"dropped", "rejected"}) =>
              /\ fetched'[Len(fetched')].key \in visited_keys'
              /\ pages' = pages /\ forms' = forms /\ put_log' = put_log]_vars
    /\ [](\A i, j \in 1..Len(fetched) :
             (i < j /\ fetched[i].verdict \in {"dropped", "rejected"}) =>
                 fetched[j].key # fetched[i].key)

\* C30: once appending a page makes len(pages) reach a positive max_pages, crawl()
\* dequeues, fetches and renders nothing more, whatever is left in the frontier.
CapStopsTraversal ==
    [][(pc # "init" /\ cap_reached(Len(pages))) =>
          (q' = q /\ fetched' = fetched /\ renders' = renders /\ pages' = pages
           /\ pc = "done" /\ pc' = "done")]_vars

\* the cap stopped a crawl that used the renderer with items left in the frontier:
\* the page that reached the cap was not rendered
CapStopsTraversalWitness ==
    /\ pc = "done" /\ q # <<>>
    /\ cap_reached(Len(pages))
    /\ renderer = "closed"
    /\ Len(pages) = 2 /\ Len(renders) = 1

\* rendering page u gave no DOM text: there was no renderer, render_url raised, or
\* the text it returned is empty
RenderFailed(u) ==
    \/ renderer = "none"
    \/ u \notin DOMAIN site
    \/ site[u].render = <<>>
    \/ site[u].render[1].html = <<>>

\* the response that was appended as page n
PageResponse(n) ==
    Response(strip_hash(SelectSeq(fetched, LAMBDA f : f.verdict = "page")[n].url))

\* page n went through the extraction of forms and links
Extracted(n) == n < Len(pages) \/ (pc \in {"loop", "done"} /\ ~cap_reached(Len(pages)))

\* C31: a page whose rendering failed or gave no DOM text is recorded all the same,
\* the forms of its fetched HTML are recorded and every link of its fetched HTML
\* went through deduplication and filtering; crawl() is never left because of the
\* renderer.
RenderFailureFallsBack ==
    /\ \A n \in 1..Len(pages) :
          (Extracted(n) /\ RenderFailed(pages[n])) =>
              /\ \A k \in 1..Len(static_page_forms(pages[n], PageResponse(n).forms)) :
                    \E l \in 1..Len(dict_get(forms, pages[n])) :
                        dict_get(forms, pages[n])[l] =
                            static_page_forms(pages[n], PageResponse(n).forms)[k]
              /\ \A k \in 1..Len(static_anchors(pages[n], PageResponse(n).links)) :
                    \/ canonical_key(canonicalize_spa(
                            static_anchors(pages[n], PageResponse(n).links)[k],
                            start_origin, start_path)) \in visited_keys
                    \/ \E a \in admission :
                          /\ a.kind = "link"
                          /\ a.url = canonicalize_spa(
                                static_anchors(pages[n], PageResponse(n).links)[k],
                                start_origin, start_path)
    /\ pc = "raised" => urljoin_raises(PageResponse(Len(pages)).links)

\* a crawl with the renderer open went to its end: a page whose render raised has
\* its static form recorded, a page rendered to an empty text was processed, and a
\* link found only in fetched HTML was enqueued
RenderFailureFallsBackWitness ==
    /\ pc = "done" /\ renderer = "closed"
    /\ \E n \in 1..Len(pages) :
          /\ pages[n] = U_p /\ U_p \in Range(renders)
          /\ dict_get(forms, U_p) # <<>>
    /\ \E n \in 1..Len(pages) :
          /\ pages[n] = U_sr /\ U_sr \in Range(renders) /\ n < Len(pages)
          /\ \E k \in 1..Len(put_log) : put_log[k].page = n /\ put_log[k].src = "a"

\* no page of the sites crawled here has more links than this
MaxLinks == 5

RECURSIVE Power(_, _)
Power(b, e) == IF e <= 0 THEN 1 ELSE b * Power(b, e - 1)

\* what a frontier item may still cost: an item too deep is only dequeued, another
\* one may put up to MaxLinks items one level deeper
RECURSIVE Work(_)
Work(items) ==
    IF items = <<>> THEN 0
    ELSE Power(MaxLinks + 1, cp.max_depth + 1 - Head(items).depth) + Work(Tail(items))

\* C33 as stated: for every finite link graph and finite max_depth, crawl()
\* eventually empties the frontier or reaches the page cap and returns: every
\* iteration of the loop leaves less work in the frontier than it found, and the
\* loop is left only by the return of crawl().
CrawlReturns ==
    [][pc = "loop" =>
          /\ pc' \in {"loop", "done"}
          /\ pc' = "loop" => Work(q') < Work(q)]_vars

\* C34 as stated: when crawl() stops at the page cap, the last page has no entry in
\* forms and none of its links were enqueued; every key of forms is a page; with
\* max_pages = 1 forms is empty.
CapPageNotAnalysed ==
    pc # "init" =>
        /\ (pc = "done" /\ cap_reached(Len(pages))) =>
              /\ ~dict_has(forms, pages[Len(pages)])
              /\ \A k \in 1..Len(put_log) : put_log[k].page # Len(pages)
        /\ \A e \in 1..Len(forms) : forms[e][1] \in Range(pages)
        /\ cp.max_pages = 1 => forms = <<>>

\* C32 as stated: the pages list of crawl() never holds two entries with the same
\* canonical key, whatever the link graph, the allowed hosts and the redirects.
UniquePages ==
    \A i, j \in 1..Len(pages) :
        i < j => canonical_key(pages[i]) # canonical_key(pages[j])

-----------------------------------------------------------------------------
(* urllib.parse: parse_qsl and urlencode, as the detection modules call them *)

\* the %XX escape of every character outside quote()'s always-safe set that
\* occurs in the model's strings (the space is written "+" by quote_plus)
PercentCode ==
    ("<" :> <<"3", "C">>) @@ (">" :> <<"3", "E">>) @@ ("'" :> <<"2", "7">>) @@
    ("=" :> <<"3", "D">>) @@ ("&" :> <<"2", "6">>) @@ ("+" :> <<"2", "B">>) @@
    ("%" :> <<"2", "5">>) @@ ("/" :> <<"2", "F">>) @@ (":" :> <<"3", "A">>) @@
    ("?" :> <<"3", "F">>) @@ ("#" :> <<"2", "3">>) @@ (";" :> <<"3", "B">>)

quote_char(c) ==
    IF c = " " THEN <<"+">>
    ELSE IF c \in DOMAIN PercentCode THEN <<"%">> \o PercentCode[c]
    ELSE <<c>>

RECURSIVE quote_plus(_)
quote_plus(s) == IF s = EMPTY THEN EMPTY ELSE quote_char(Head(s)) \o quote_plus(Tail(s))

unquote_code(xx) ==
    IF xx = <<"2", "0">> THEN " "
    ELSE CHOOSE c \in DOMAIN PercentCode : PercentCode[c] = xx

is_escape(s) ==
    /\ Len(s) >= 3 /\ s[1] = "%"
    /\ (SubSeq(s, 2, 3) = <<"2", "0">> \/ \E c \in DOMAIN PercentCode : PercentCode[c] = SubSeq(s, 2, 3))

RECURSIVE unquote(_)
unquote(s) ==
    IF s = EMPTY THEN EMPTY
    ELSE IF is_escape(s) THEN <<unquote_code(SubSeq(s, 2, 3))>> \o unquote(From(s, 4))
    ELSE <<Head(s)>> \o unquote(Tail(s))

plus_to_space(s) == [i \in 1..Len(s) |-> IF s[i] = "+" THEN " " ELSE s[i]]

\* str.split(sep) for a one-character separator
RECURSIVE split_at(_, _, _)
split_at(s, sep, i) ==
    IF i = 0 THEN <<s>>
    ELSE <<SubSeq(s, 1, i - 1)>> \o split_at(From(s, i + 1), sep, Find(From(s, i + 1), sep))

split(s, sep) == split_at(s, sep, Find(s, sep))

\* one name=value piece (keep_blank_values=True: a piece without "=" has value "")
qsl_pair_at(nv, i) ==
    IF i = 0 THEN <<unquote(plus_to_space(nv)), EMPTY>>
    ELSE <<unquote(plus_to_space(SubSeq(nv, 1, i - 1))), unquote(plus_to_space(From(nv, i + 1)))>>

RECURSIVE qsl_pairs(_)
qsl_pairs(pieces) ==
    IF pieces = <<>> THEN <<>>
    ELSE IF Head(pieces) = EMPTY THEN qsl_pairs(Tail(pieces))
    ELSE <<qsl_pair_at(Head(pieces), Find(Head(pieces), "="))>> \o qsl_pairs(Tail(pieces))

parse_qsl(qs) == qsl_pairs(split(qs, "&"))

\* dict(pairs)

RECURSIVE urlencode(_)
urlencode(d) ==
    IF d = <<>> THEN EMPTY
    ELSE quote_plus(Head(d)[1]) \o <<"=">> \o quote_plus(Head(d)[2])
         \o (IF Len(d) > 1 THEN <<"&">> \o urlencode(Tail(d)) ELSE EMPTY)

\* the probe URL: the page URL with qs[param] = p
url_mod_of(parsed, param, p) ==
    urlunsplit(parsed.scheme, parsed.netloc, parsed.path,
               urlencode(dict_set(dict(parse_qsl(parsed.query)), param, p)),
               parsed.fragment)

url_mod(url, param, p) == url_mod_of(urlsplit(url), param, p)

Finding(severity, type, url, param, evidence) ==
    [severity |-> severity, type |-> type, url |-> url, param |-> param, evidence |-> evidence]

\* variant: an exception while probing ends the module
after_probe_raised_return(at) == "done"

\* except Exception: continue
after_probe_raised(at) == at

\* "cap is not None and tested >= cap"
cap_hit == \E c \in t_cap : tested >= c

-----------------------------------------------------------------------------
(* The server answering the probes *)

\* html.escape(s)
escape_char(c) ==
    CASE c = "&" -> <<"&", "a", "m", "p", ";">>
      [] c = "<" -> <<"&", "l", "t", ";">>
      [] c = ">" -> <<"&", "g", "t", ";">>
      [] c = "'" -> <<"&", "#", "x", "2", "7", ";">>
      [] OTHER -> <<c>>

RECURSIVE html_escape(_)
html_escape(s) == IF s = EMPTY THEN EMPTY ELSE escape_char(Head(s)) \o html_escape(Tail(s))

\* the value a server reads for param from the request URL (the last one given)
server_value(req, param) == dict_get(dict(parse_qsl(urlsplit(req).query)), param)

InPage(v) == <<"h">> \o v \o <<"t">>

X_tag == <<"<", "s", ">">>
X_mark == <<"m">>
X_amp == <<"m", "&", "q", "=", "<">>

\* the bodies a server may send: the parameter echoed verbatim, echoed
\* HTML-escaped, not echoed, or a page that holds the marker whatever is sent
Bodies(v) == { InPage(v), InPage(html_escape(v)), InPage(EMPTY), InPage(X_mark) }

-----------------------------------------------------------------------------
(* test_reflected_xss *)

MaxPayloads == 3   \* payload lists have 0..MaxPayloads entries

XssPayloads == { X_tag, X_mark, X_amp }

Lists(S) == UNION { [1..n -> S] : n \in 0..MaxPayloads }

T_q == <<"http", ":", "/", "/", "a", "/", "p", "?", "q", "=", "1">>
T_rq == <<"http", ":", "/", "/", "a", "/", "p", "?", "r", "=", "2", "&", "q", "=", "1", "#", "/", "r">>

ProbeUrls == { T_q, T_rq }
ProbeParams == { <<"q">>, <<"x">> }
Caps == { {}, {1}, {2} }

\* "p in (r.text or '')", any one character of p being enough
reflected_partly(p, text) == \E i \in 1..Len(p) : contains(text, <<p[i]>>)

\* "p in (r.text or '')"
reflected(p, text) == contains(text, p)

xss_finding(um, p) ==
    Finding("HIGH", "XSS", um, t_param, <<"Reflected payload: ">> \o p)

XssInit ==
    /\ t_pc = "xss"
    /\ t_url \in ProbeUrls
    /\ t_param \in ProbeParams
    /\ t_payloads \in Lists(XssPayloads)
    /\ t_cap \in Caps
    /\ t_k = 1 /\ tested = 0 /\ baseline = <<>>
    /\ t_result = <<>> /\ t_base = <<>> /\ t_probes = <<>>
    /\ ProbeRestIdle

\* the cap stops the loop
xss_cap_break ==
    /\ t_pc = "xss" /\ t_k <= Len(t_payloads) /\ cap_hit
    /\ t_result' = <<>>
    /\ t_pc' = "done"
    /\ UNCHANGED <<t_url, t_param, t_payloads, t_cap, t_k, tested, baseline, t_base, t_probes>>
    /\ UNCHANGED probeRest

\* the probe's GET raises: the payload is skipped
xss_probe_raised ==
    /\ t_pc = "xss" /\ t_k <= Len(t_payloads) /\ ~cap_hit
    /\ \E um \in {url_mod(t_url, t_param, t_payloads[t_k])} :
          t_probes' = Append(t_probes, [k |-> t_k, url |-> strip_hash(um), ok |-> FALSE, text |-> EMPTY])
    /\ tested' = tested + 1
    /\ t_k' = t_k + 1
    /\ t_pc' = after_probe_raised(t_pc)
    /\ UNCHANGED <<t_url, t_param, t_payloads, t_cap, baseline, t_result, t_base>>
    /\ UNCHANGED probeRest

\* the probe's response holds the payload: the finding is returned
xss_probe_reflected ==
    /\ t_pc = "xss" /\ t_k <= Len(t_payloads) /\ ~cap_hit
    /\ \E um \in {url_mod(t_url, t_param, t_payloads[t_k])} :
       \E text \in Bodies(server_value(strip_hash(um), t_param)) :
          /\ reflected(t_payloads[t_k], text)
          /\ t_probes' = Append(t_probes, [k |-> t_k, url |-> strip_hash(um), ok |-> TRUE, text |-> text])
          /\ t_result' = <<xss_finding(um, t_payloads[t_k])>>
    /\ tested' = tested + 1
    /\ t_pc' = "done"
    /\ UNCHANGED <<t_url, t_param, t_payloads, t_cap, t_k, baseline, t_base>>
    /\ UNCHANGED probeRest

\* the probe's response does not hold the payload: next payload
xss_probe_clean ==
    /\ t_pc = "xss" /\ t_k <= Len(t_payloads) /\ ~cap_hit
    /\ \E um \in {url_mod(t_url, t_param, t_payloads[t_k])} :
       \E text \in Bodies(server_value(strip_hash(um), t_param)) :
          /\ ~reflected(t_payloads[t_k], text)
          /\ t_probes' = Append(t_probes, [k |-> t_k, url |-> strip_hash(um), ok |-> TRUE, text |-> text])
    /\ tested' = tested + 1
    /\ t_k' = t_k + 1
    /\ UNCHANGED <<t_pc, t_url, t_param, t_payloads, t_cap, baseline, t_result, t_base>>
    /\ UNCHANGED probeRest

\* the list is exhausted: return None
xss_exhausted ==
    /\ t_pc = "xss" /\ t_k > Len(t_payloads)
    /\ t_result' = <<>>
    /\ t_pc' = "done"
    /\ UNCHANGED <<t_url, t_param, t_payloads, t_cap, t_k, tested, baseline, t_base, t_probes>>
    /\ UNCHANGED probeRest

XssNext ==
    \/ xss_cap_break
    \/ xss_probe_raised
    \/ xss_probe_reflected
    \/ xss_probe_clean
    \/ xss_exhausted

SpecXss == XssInit /\ [][XssNext]_vars

-----------------------------------------------------------------------------
(* Claims about test_reflected_xss *)

\* probe i got a response and the response body holds the payload it sent
Echoed(i) == t_probes[i].ok /\ contains(t_probes[i].text, t_payloads[t_probes[i].k])

\* the number of payloads the cap lets through
Allowed ==
    IF t_cap = {} THEN Len(t_payloads)
    ELSE CHOOSE n \in 0..Len(t_payloads) :
            \E c \in t_cap : n = (IF c < Len(t_payloads) THEN c ELSE Len(t_payloads))

\* C9: test_reflected_xss probes the payloads in list order and returns at most
\* one finding: a HIGH XSS finding, with the payload in its evidence, for the
\* first payload that appears verbatim in the response body of its own probe,
\* after which no request is issued for a later payload; when no payload is
\* echoed verbatim (the body HTML-escapes it, say) it returns no finding.
ReflectedXss ==
    t_pc \in {"xss", "done"} =>
        /\ \A i \in 1..Len(t_probes) :
              /\ t_probes[i].k = i
              /\ t_probes[i].url = strip_hash(url_mod(t_url, t_param, t_payloads[i]))
        /\ \A i \in 1..(Len(t_probes) - 1) : ~Echoed(i)
        /\ t_pc = "xss" => t_result = <<>>
        /\ (t_pc = "done" /\ Len(t_probes) > 0 /\ Echoed(Len(t_probes))) =>
              /\ Len(t_result) = 1
              /\ t_result[1].severity = "HIGH" /\ t_result[1].type = "XSS"
              /\ t_result[1].param = t_param
              /\ t_result[1].url = url_mod(t_url, t_param, t_payloads[Len(t_probes)])
              /\ contains(t_result[1].evidence, t_payloads[Len(t_probes)])
        /\ (t_pc = "done" /\ ~(Len(t_probes) > 0 /\ Echoed(Len(t_probes)))) =>
              /\ t_result = <<>>
              /\ Len(t_probes) = Allowed

\* the first probe was answered with the payload HTML-escaped, the second one
\* was echoed verbatim and gave the finding, and a third payload was never sent
ReflectedXssWitness ==
    /\ t_pc = "done"
    /\ Len(t_payloads) = 3 /\ t_cap = {} /\ Len(t_probes) = 2
    /\ t_payloads[1] = X_tag
    /\ t_probes[1].ok /\ t_probes[1].text = InPage(html_escape(X_tag))
    /\ Echoed(2) /\ t_payloads[2] = X_amp
    /\ Len(t_result) = 1 /\ t_result[1].severity = "HIGH"

-----------------------------------------------------------------------------
(* test_sqli_basic *)

(***************************************************************************)
(* A response text of the SQLi module is described by what the module      *)
(* reads of it: its length in characters, the offset at which the first    *)
(* database error message in it ends (0: it holds none), and whether that  *)
(* message is spelled in lower case, as the entries of error_signatures    *)
(* are.                                                                    *)
(***************************************************************************)
Text(len, sig, lowercase) == [len |-> len, sig |-> sig, lowercase |-> lowercase]

NoText == Text(0, 0, TRUE)

BodyWindow == 5000      \* the slice [:5000]
LengthDelta == 500      \* the length threshold

Abs(x) == IF x < 0 THEN -x ELSE x

\* text[:5000]
slice(text) ==
    Text(IF text.len < BodyWindow THEN text.len ELSE BodyWindow,
         IF text.sig <= BodyWindow THEN text.sig ELSE 0,
         text.lowercase)

\* text.lower()
lower_text(text) == Text(text.len, text.sig, TRUE)

\* any(sig in body for sig in error_signatures)
has_signature(body) == body.sig > 0 /\ body.lowercase

\* "baseline and abs(len(r.text or '') - len(baseline)) > 500"
length_changed(text, base) == base.len > 0 /\ Abs(text.len - base.len) > LengthDelta

S_quote == <<"'">>
S_or == <<"'", " ", "o", "r", " ", "1", "=", "1">>

SqliPayloads == { S_quote, S_or }

\* the texts a server may send
PlainTexts == { Text(n, 0, TRUE) : n \in {0, 100, 700, 5600} }

ErrorTexts == { Text(100, 50, TRUE), Text(100, 50, FALSE), Text(5600, 5600, TRUE) }

sqli_high(um, p) ==
    Finding("HIGH", "SQLi", um, t_param, <<"Error-based signature with payload: ">> \o p)

sqli_medium(um, p) ==
    Finding("MEDIUM", "SQLi", um, t_param, <<"Response length changed with payload: ">> \o p)

SqliInit ==
    /\ t_pc = "baseline"
    /\ t_url \in ProbeUrls
    /\ t_param = <<"q">>
    /\ t_payloads \in Lists(SqliPayloads)
    /\ t_cap \in Caps
    /\ t_k = 1 /\ tested = 0 /\ baseline = <<>>
    /\ t_result = <<>> /\ t_base = <<>> /\ t_probes = <<>>
    /\ ProbeRestIdle

\* the baseline GET answers
sqli_baseline ==
    /\ t_pc = "baseline"
    /\ \E text \in PlainTexts \cup ErrorTexts :
          /\ baseline' = slice(text)
          /\ t_base' = << [url |-> strip_hash(t_url), ok |-> TRUE, text |-> text] >>
    /\ t_pc' = "sqli"
    /\ UNCHANGED <<t_url, t_param, t_payloads, t_cap, t_k, tested, t_result, t_probes>>
    /\ UNCHANGED probeRest

\* the baseline GET raises
sqli_baseline_raised ==
    /\ t_pc = "baseline"
    /\ baseline' = NoText
    /\ t_base' = << [url |-> strip_hash(t_url), ok |-> FALSE, text |-> NoText] >>
    /\ t_pc' = "sqli"
    /\ UNCHANGED <<t_url, t_param, t_payloads, t_cap, t_k, tested, t_result, t_probes>>
    /\ UNCHANGED probeRest

\* the cap stops the loop
sqli_cap_break ==
    /\ t_pc = "sqli" /\ t_k <= Len(t_payloads) /\ cap_hit
    /\ t_result' = <<>>
    /\ t_pc' = "done"
    /\ UNCHANGED <<t_url, t_param, t_payloads, t_cap, t_k, tested, baseline, t_base, t_probes>>
    /\ UNCHANGED probeRest

\* the probe's GET raises: the payload is skipped
sqli_probe_raised ==
    /\ t_pc = "sqli" /\ t_k <= Len(t_payloads) /\ ~cap_hit
    /\ \E um \in {url_mod(t_url, t_param, t_payloads[t_k])} :
          t_probes' = Append(t_probes, [k |-> t_k, url |-> strip_hash(um), ok |-> FALSE, text |-> NoText])
    /\ tested' = tested + 1
    /\ t_k' = t_k + 1
    /\ t_pc' = after_probe_raised(t_pc)
    /\ UNCHANGED <<t_url, t_param, t_payloads, t_cap, baseline, t_result, t_base>>
    /\ UNCHANGED probeRest

\* an error signature in the body
sqli_probe_high ==
    /\ t_pc = "sqli" /\ t_k <= Len(t_payloads) /\ ~cap_hit
    /\ \E um \in {url_mod(t_url, t_param, t_payloads[t_k])} :
       \E text \in PlainTexts \cup ErrorTexts :
          /\ has_signature(lower_text(slice(text)))
          /\ t_probes' = Append(t_probes, [k |-> t_k, url |-> strip_hash(um), ok |-> TRUE, text |-> text])
          /\ t_result' = <<sqli_high(um, t_payloads[t_k])>>
    /\ tested' = tested + 1
    /\ t_pc' = "done"
    /\ UNCHANGED <<t_url, t_param, t_payloads, t_cap, t_k, baseline, t_base>>
    /\ UNCHANGED probeRest

\* no error signature, the length differs from the baseline's
sqli_probe_medium ==
    /\ t_pc = "sqli" /\ t_k <= Len(t_payloads) /\ ~cap_hit
    /\ \E um \in {url_mod(t_url, t_param, t_payloads[t_k])} :
       \E text \in PlainTexts \cup ErrorTexts :
          /\ ~has_signature(lower_text(slice(text)))
          /\ length_changed(text, baseline)
          /\ t_probes' = Append(t_probes, [k |-> t_k, url |-> strip_hash(um), ok |-> TRUE, text |-> text])
          /\ t_result' = <<sqli_medium(um, t_payloads[t_k])>>
    /\ tested' = tested + 1
    /\ t_pc' = "done"
    /\ UNCHANGED <<t_url, t_param, t_payloads, t_cap, t_k, baseline, t_base>>
    /\ UNCHANGED probeRest

\* neither: next payload
sqli_probe_clean ==
    /\ t_pc = "sqli" /\ t_k <= Len(t_payloads) /\ ~cap_hit
    /\ \E um \in {url_mod(t_url, t_param, t_payloads[t_k])} :
       \E text \in PlainTexts \cup ErrorTexts :
          /\ ~has_signature(lower_text(slice(text)))
          /\ ~length_changed(text, baseline)
          /\ t_probes' = Append(t_probes, [k |-> t_k, url |-> strip_hash(um), ok |-> TRUE, text |-> text])
    /\ tested' = tested + 1
    /\ t_k' = t_k + 1
    /\ UNCHANGED <<t_pc, t_url, t_param, t_payloads, t_cap, baseline, t_result, t_base>>
    /\ UNCHANGED probeRest

\* the list is exhausted: return None
sqli_exhausted ==
    /\ t_pc = "sqli" /\ t_k > Len(t_payloads)
    /\ t_result' = <<>>
    /\ t_pc' = "done"
    /\ UNCHANGED <<t_url, t_param, t_payloads, t_cap, t_k, tested, baseline, t_base, t_probes>>
    /\ UNCHANGED probeRest

SqliNext ==
    \/ sqli_baseline
    \/ sqli_baseline_raised
    \/ sqli_cap_break
    \/ sqli_probe_raised
    \/ sqli_probe_high
    \/ sqli_probe_medium
    \/ sqli_probe_clean
    \/ sqli_exhausted

SpecSqli == SqliInit /\ [][SqliNext]_vars

-----------------------------------------------------------------------------
(* Claims about test_sqli_basic *)

\* the text holds a database error message, in whatever letter case and place
HoldsSignature(text) == text.sig > 0

\* a baseline response was obtained and is not empty
BaselineExists == t_base # <<>> /\ t_base[1].ok /\ t_base[1].text.len > 0

\* the probe's response differs in length from the baseline response by more
\* than the threshold
LengthDiffers(i) ==
    BaselineExists /\ Abs(t_probes[i].text.len - t_base[1].text.len) > LengthDelta

Qualifies(i) == t_probes[i].ok /\ (HoldsSignature(t_probes[i].text) \/ LengthDiffers(i))

\* C10: for each payload in order, test_sqli_basic yields HIGH if the probe
\* response contains a database error signature (also when the length differs),
\* else MEDIUM if a non-empty baseline exists and the response length differs
\* from the baseline response length by more than 500 characters, else nothing;
\* the first qualifying payload determines the single finding returned, and
\* after a failed baseline fetch only HIGH findings are possible.
SqliClassification ==
    t_pc = "done" =>
        /\ \A i \in 1..Len(t_probes) : t_probes[i].k = i
        /\ \A i \in 1..(Len(t_probes) - 1) : ~Qualifies(i)
        /\ (Len(t_probes) > 0 /\ Qualifies(Len(t_probes))) =>
              /\ Len(t_result) = 1
              /\ t_result[1].type = "SQLi"
              /\ t_result[1].severity =
                    (IF HoldsSignature(t_probes[Len(t_probes)].text) THEN "HIGH" ELSE "MEDIUM")
        /\ ~(Len(t_probes) > 0 /\ Qualifies(Len(t_probes))) => t_result = <<>>
        /\ (~t_base[1].ok /\ t_result # <<>>) => t_result[1].severity = "HIGH"

\* probe i is the one the returned finding comes from
ProducedFinding(i) == t_pc = "done" /\ i = Len(t_probes) /\ t_result # <<>>

\* C11: a probe response without error signature that is exactly as long as the
\* unmodified baseline response yields no finding, whatever that length is, and
\* one that is 600 characters longer than the baseline response yields MEDIUM.
SqliEqualLength ==
    t_pc \in {"sqli", "done"} =>
        \A i \in 1..Len(t_probes) :
            (t_probes[i].ok /\ ~HoldsSignature(t_probes[i].text) /\ t_base[1].ok) =>
                /\ t_probes[i].text.len = t_base[1].text.len => ~ProducedFinding(i)
                /\ t_probes[i].text.len = t_base[1].text.len + 600 =>
                      (ProducedFinding(i) /\ t_result[1].severity = "MEDIUM")

-----------------------------------------------------------------------------
(* test_dom_xss_with_js *)

\* the text of CANARY, one token
CANARY == <<"C">>

\* '"><img src=x onerror=console.log("{CANARY}")>'
console_canary == <<">", "<">> \o CANARY \o <<">">>

\* test_values = list(payloads) + [console_canary]
test_values == t_payloads \o <<console_canary>>

dom_finding(um, evidence) == Finding("HIGH", "XSS", um, t_param, evidence)

\* what render_url observed: a dialog, the canary on the console, the rendered DOM
Renders(v) == [dialog : BOOLEAN, canary : BOOLEAN, html : Bodies(v)]

dom_probe(um, ok, r) ==
    [k |-> t_k, url |-> um, ok |-> ok, text |-> r.html, dialog |-> r.dialog, canary |-> r.canary]

NoRender == [dialog |-> FALSE, canary |-> FALSE, html |-> EMPTY]

DomInit ==
    /\ t_pc = "dom"
    /\ t_url \in ProbeUrls
    /\ t_param \in ProbeParams
    /\ t_payloads \in Lists(XssPayloads)
    /\ t_cap = {}
    /\ t_k = 1 /\ tested = 0 /\ baseline = <<>>
    /\ t_result = <<>> /\ t_base = <<>> /\ t_probes = <<>>
    /\ ProbeRestIdle

\* js_renderer cannot be imported: return None
dom_import_failed ==
    /\ t_pc = "dom"
    /\ t_result' = <<>>
    /\ t_pc' = "done"
    /\ UNCHANGED <<t_url, t_param, t_payloads, t_cap, t_k, tested, baseline, t_base, t_probes>>
    /\ UNCHANGED probeRest

\* js_context(...) raises: return None
dom_context_failed ==
    /\ t_pc = "dom"
    /\ t_result' = <<>>
    /\ t_pc' = "done"
    /\ UNCHANGED <<t_url, t_param, t_payloads, t_cap, t_k, tested, baseline, t_base, t_probes>>
    /\ UNCHANGED probeRest

\* with js_context(...) as browser
dom_context_entered ==
    /\ t_pc = "dom"
    /\ t_pc' = "dom_loop"
    /\ UNCHANGED <<t_url, t_param, t_payloads, t_cap, t_k, tested, baseline, t_result, t_base, t_probes>>
    /\ UNCHANGED probeRest

\* render_url raises: the test value is skipped
dom_render_raised ==
    /\ t_pc = "dom_loop" /\ t_k <= Len(test_values)
    /\ \E um \in {url_mod(t_url, t_param, test_values[t_k])} :
          t_probes' = Append(t_probes, dom_probe(um, FALSE, NoRender))
    /\ t_k' = t_k + 1
    /\ t_pc' = after_probe_raised(t_pc)
    /\ UNCHANGED <<t_url, t_param, t_payloads, t_cap, tested, baseline, t_result, t_base>>
    /\ UNCHANGED probeRest

\* a dialog was triggered
dom_dialog ==
    /\ t_pc = "dom_loop" /\ t_k <= Len(test_values)
    /\ \E um \in {url_mod(t_url, t_param, test_values[t_k])} :
       \E r \in Renders(server_value(um, t_param)) :
          /\ r.dialog
          /\ t_probes' = Append(t_probes, dom_probe(um, TRUE, r))
          /\ t_result' = <<dom_finding(um, <<"JS dialog triggered">>)>>
    /\ t_pc' = "done"
    /\ UNCHANGED <<t_url, t_param, t_payloads, t_cap, t_k, tested, baseline, t_base>>
    /\ UNCHANGED probeRest

\* no dialog, the canary was logged on the console
dom_canary ==
    /\ t_pc = "dom_loop" /\ t_k <= Len(test_values)
    /\ \E um \in {url_mod(t_url, t_param, test_values[t_k])} :
       \E r \in Renders(server_value(um, t_param)) :
          /\ ~r.dialog /\ r.canary
          /\ t_probes' = Append(t_probes, dom_probe(um, TRUE, r))
          /\ t_result' = <<dom_finding(um, <<"Console canary observed (onerror)">>)>>
    /\ t_pc' = "done"
    /\ UNCHANGED <<t_url, t_param, t_payloads, t_cap, t_k, tested, baseline, t_base>>
    /\ UNCHANGED probeRest

\* no dialog, no canary, the test value is in the rendered DOM
dom_in_html ==
    /\ t_pc = "dom_loop" /\ t_k <= Len(test_values)
    /\ \E um \in {url_mod(t_url, t_param, test_values[t_k])} :
       \E r \in Renders(server_value(um, t_param)) :
          /\ ~r.dialog /\ ~r.canary /\ reflected(test_values[t_k], r.html)
          /\ t_probes' = Append(t_probes, dom_probe(um, TRUE, r))
          /\ t_result' = <<dom_finding(um, <<"Payload seen in rendered DOM">>)>>
    /\ t_pc' = "done"
    /\ UNCHANGED <<t_url, t_param, t_payloads, t_cap, t_k, tested, baseline, t_base>>
    /\ UNCHANGED probeRest

\* nothing observed: next test value
dom_clean ==
    /\ t_pc = "dom_loop" /\ t_k <= Len(test_values)
    /\ \E um \in {url_mod(t_url, t_param, test_values[t_k])} :
       \E r \in Renders(server_value(um, t_param)) :
          /\ ~r.dialog /\ ~r.canary /\ ~reflected(test_values[t_k], r.html)
          /\ t_probes' = Append(t_probes, dom_probe(um, TRUE, r))
    /\ t_k' = t_k + 1
    /\ UNCHANGED <<t_pc, t_url, t_param, t_payloads, t_cap, tested, baseline, t_result, t_base>>
    /\ UNCHANGED probeRest

\* the test values are exhausted: return None
dom_exhausted ==
    /\ t_pc = "dom_loop" /\ t_k > Len(test_values)
    /\ t_result' = <<>>
    /\ t_pc' = "done"
    /\ UNCHANGED <<t_url, t_param, t_payloads, t_cap, t_k, tested, baseline, t_base, t_probes>>
    /\ UNCHANGED probeRest

DomNext ==
    \/ dom_import_failed
    \/ dom_context_failed
    \/ dom_context_entered
    \/ dom_render_raised
    \/ dom_dialog
    \/ dom_canary
    \/ dom_in_html
    \/ dom_clean
    \/ dom_exhausted

-----------------------------------------------------------------------------
(* The three detection modules, one of them called *)

ProbesInit == XssInit \/ SqliInit \/ DomInit

ProbesNext == XssNext \/ SqliNext \/ DomNext

SpecProbes == ProbesInit /\ [][ProbesNext]_vars

\* the values the module called may probe with: the payloads the cap lets
\* through, and test_dom_xss_with_js's canary
Values ==
    IF t_pc \in {"dom", "dom_loop"} \/ (t_probes # <<>> /\ "dialog" \in DOMAIN t_probes[1])
    THEN Len(t_payloads) + 1
    ELSE Allowed

\* C15: an exception while probing one payload skips only that payload: the
\* payloads are probed one after the other whether or not a probe failed, the
\* module does not return at a failed probe while payloads are left, and a
\* finding is returned only from a probe whose response was obtained.
ProbeErrorsSwallowed ==
    /\ \A i \in 1..Len(t_probes) : t_probes[i].k = i
    /\ t_result # <<>> => (t_probes # <<>> /\ t_probes[Len(t_probes)].ok)
    /\ (t_pc = "done" /\ t_probes # <<>> /\ ~t_probes[Len(t_probes)].ok) =>
           Len(t_probes) = Values

\* a probe failed, the next payload was probed and gave the finding
ProbeErrorsSwallowedWitness ==
    /\ t_pc = "done" /\ t_result # <<>>
    /\ Len(t_probes) = 2
    /\ ~t_probes[1].ok /\ t_probes[2].ok

-----------------------------------------------------------------------------
(* check_security_headers *)

(***************************************************************************)
(* Header names are written with three letters: "sts" stands for           *)
(* strict-transport-security, "csp" for content-security-policy and "xfo"  *)
(* for x-frame-options; a response or a configuration may spell them in    *)
(* any letter case.                                                        *)
(***************************************************************************)
STS == <<"s", "t", "s">>
HTTPS_PREFIX == <<"https", ":", "/", "/">>

MaxRequired == 2   \* required-header lists have 0..MaxRequired entries

\* {k.lower(): v for k, v in resp.headers.items()}, the keys
lower_names(names) == { lower(n) : n \in names }

\* "h.lower() not in headers", without lowering h
header_missing_exact(h, headers) == h \notin headers

\* "h.lower() not in headers"
header_missing(h, headers) == lower(h) \notin headers

missing_finding(h) == Finding("INFO", "Headers", h_url, <<"-">>, <<"Missing header: ">> \o h)

hsts_finding == Finding("INFO", "Headers", h_url, <<"-">>, <<"No HSTS header">>)

\* a requests.Response carries at most one header per case-insensitive name
ResponseHeaders ==
    { csp \cup xfo \cup sts :
        csp \in { {}, {<<"C", "S", "P">>}, {<<"c", "s", "p">>} },
        xfo \in { {}, {<<"X", "F", "O">>} },
        sts \in { {}, {<<"S", "t", "s">>}, {STS} } }

RequiredNames == { <<"C", "S", "P">>, <<"c", "s", "p">>, <<"X", "F", "O">>, <<"S", "T", "S">> }

RequiredLists == UNION { [1..n -> RequiredNames] : n \in 0..MaxRequired }

ResponseUrls ==
    { <<"http", ":", "/", "/", "a", "/", "p">>,
      <<"https", ":", "/", "/", "a", "/", "p">>,
      <<"https", ":", "/", "/", "a", "/", "p", "?", "q", "=", "1">> }

HdrInit ==
    /\ h_pc = "required"
    /\ h_url \in ResponseUrls
    /\ h_names \in ResponseHeaders
    /\ h_required \in RequiredLists
    /\ h_k = 1
    /\ h_f = <<>>
    /\ HdrRestIdle

\* a required header the response lacks
hdr_required_missing ==
    /\ h_pc = "required" /\ h_k <= Len(h_required)
    /\ header_missing(h_required[h_k], lower_names(h_names))
    /\ h_f' = Append(h_f, missing_finding(h_required[h_k]))
    /\ h_k' = h_k + 1
    /\ UNCHANGED <<h_pc, h_url, h_names, h_required>>
    /\ UNCHANGED hdrRest

\* a required header the response has
hdr_required_present ==
    /\ h_pc = "required" /\ h_k <= Len(h_required)
    /\ ~header_missing(h_required[h_k], lower_names(h_names))
    /\ h_k' = h_k + 1
    /\ UNCHANGED <<h_pc, h_url, h_names, h_required, h_f>>
    /\ UNCHANGED hdrRest

\* the required list is done
hdr_required_done ==
    /\ h_pc = "required" /\ h_k > Len(h_required)
    /\ h_pc' = "hsts"
    /\ UNCHANGED <<h_url, h_names, h_required, h_k, h_f>>
    /\ UNCHANGED hdrRest

\* an https response without Strict-Transport-Security; return f
hdr_hsts_missing ==
    /\ h_pc = "hsts"
    /\ STS \notin lower_names(h_names) /\ startswith(h_url, HTTPS_PREFIX)
    /\ h_f' = Append(h_f, hsts_finding)
    /\ h_pc' = "done"
    /\ UNCHANGED <<h_url, h_names, h_required, h_k>>
    /\ UNCHANGED hdrRest

\* return f
hdr_return ==
    /\ h_pc = "hsts"
    /\ ~(STS \notin lower_names(h_names) /\ startswith(h_url, HTTPS_PREFIX))
    /\ h_pc' = "done"
    /\ UNCHANGED <<h_url, h_names, h_required, h_k, h_f>>
    /\ UNCHANGED hdrRest

HdrNext ==
    \/ hdr_required_missing
    \/ hdr_required_present
    \/ hdr_required_done
    \/ hdr_hsts_missing
    \/ hdr_return

SpecHeaders == HdrInit /\ [][HdrNext]_vars

\* the response has the header, in whatever letter case
HasHeader(h) == \E n \in h_names : lower(n) = lower(h)

IsInfoAbout(f, evidence) ==
    f = [severity |-> "INFO", type |-> "Headers", url |-> h_url, param |-> <<"-">>,
         evidence |-> evidence]

\* C12: check_security_headers returns exactly one INFO finding per required
\* header that the response lacks (names compared case-insensitively), none for
\* a required header it has, and exactly one more INFO finding iff the response
\* URL is https and the response has no Strict-Transport-Security header.
HeaderHygiene ==
    h_pc = "done" =>
        LET absent == SelectSeq(h_required, LAMBDA h : ~HasHeader(h))
            insecure == urlsplit(h_url).scheme = <<"https">> /\ ~HasHeader(STS)
        IN  /\ Len(h_f) = Len(absent) + (IF insecure THEN 1 ELSE 0)
            /\ \A i \in 1..Len(absent) : IsInfoAbout(h_f[i], <<"Missing header: ">> \o absent[i])
            /\ insecure => IsInfoAbout(h_f[Len(h_f)], <<"No HSTS header">>)

\* an https response that has csp in lower case and no sts, checked for CSP and
\* XFO: one finding for XFO, none for CSP, and the HSTS finding
HeaderHygieneWitness ==
    /\ h_pc = "done"
    /\ h_names = { <<"c", "s", "p">> }
    /\ h_required = << <<"C", "S", "P">>, <<"X", "F", "O">> >>
    /\ startswith(h_url, HTTPS_PREFIX)
    /\ Len(h_f) = 2
    /\ h_f[1].evidence = <<"Missing header: ", "X", "F", "O">>

-----------------------------------------------------------------------------
(* run_scan after the crawl: header checks *)

\* the code points of the characters of the page URLs; "http" and "https" only
\* differ from each other at the place where "http" is followed by ":"
Ord ==
    ("#" :> 35) @@ ("&" :> 38) @@ ("/" :> 47) @@ ("1" :> 49) @@ ("2" :> 50) @@
    (":" :> 58) @@ ("=" :> 61) @@ ("?" :> 63) @@ ("a" :> 97) @@ ("http" :> 104) @@
    ("https" :> 105) @@ ("p" :> 112) @@ ("q" :> 113) @@ ("r" :> 114) @@ ("s" :> 115) @@
    ("t" :> 116)

\* the order of str: a < b
RECURSIVE str_less(_, _)
str_less(a, b) ==
    IF b = EMPTY THEN FALSE
    ELSE IF a = EMPTY THEN TRUE
    ELSE IF Head(a) # Head(b) THEN Ord[Head(a)] < Ord[Head(b)]
    ELSE str_less(Tail(a), Tail(b))

least(S) == CHOOSE x \in S : \A y \in S \ {x} : str_less(x, y)

\* sorted(S) of a set of strings
RECURSIVE sorted(_)
sorted(S) == IF S = {} THEN <<>> ELSE <<least(S)>> \o sorted(S \ {least(S)})

\* set(strip_hash(u) for u in pages)
base_urls(pgs) == { strip_hash(pgs[i]) : i \in 1..Len(pgs) }

\* check_security_headers(r, required), for r.url = url and r.headers named names
RECURSIVE check_required(_, _, _)
check_required(url, names, required) ==
    IF required = <<>> THEN <<>>
    ELSE (IF header_missing(Head(required), names)
          THEN << Finding("INFO", "Headers", url, <<"-">>, <<"Missing header: ">> \o Head(required)) >>
          ELSE <<>>)
         \o check_required(url, names, Tail(required))

check_hsts(url, names) ==
    IF STS \notin names /\ startswith(url, HTTPS_PREFIX)
    THEN << Finding("INFO", "Headers", url, <<"-">>, <<"No HSTS header">>) >>
    ELSE <<>>

check_security_headers(url, names, required) ==
    check_required(url, lower_names(names), required) \o check_hsts(url, lower_names(names))

MaxScanPages == 2   \* crawl() returned 0..MaxScanPages pages

P_s == <<"http", ":", "/", "/", "a", "/", "s">>
P_sr == <<"http", ":", "/", "/", "a", "/", "s", "#", "/", "r">>
P_q1 == <<"https", ":", "/", "/", "a", "/", "p", "?", "q", "=", "1">>
P_q2 == <<"https", ":", "/", "/", "a", "/", "p", "?", "q", "=", "2">>
P_qr == <<"http", ":", "/", "/", "a", "/", "p", "?", "q", "=", "1", "&", "r", "=", "2">>

ScanPages == { P_s, P_sr, P_q1, P_q2, P_qr }

\* the page lists crawl() can return: a canonical key is there twice only when a
\* followed redirect led to the page again, which is what happens to P_q1 here
PageLists ==
    { l \in UNION { [1..n -> ScanPages] : n \in 0..MaxScanPages } :
        \A i, j \in 1..Len(l) :
            (i # j /\ canonical_key(l[i]) = canonical_key(l[j])) => l[i] = P_q1 }

\* the first position of the detection pass on page i
page_start(i) == [i |-> i, phase |-> "xss", j |-> 1]

\* qs = dict(parse_qsl(parsed.query, keep_blank_values=True)) of page i
qs_of(i) == dict(parse_qsl(urlsplit(s_pages[i]).query))

\* the position after the call for parameter j of n: the next parameter, the
\* SQLi loop after the XSS loop, the next page after the SQLi loop
after_param(at, n) ==
    IF at.j < n THEN [at EXCEPT !.j = at.j + 1]
    ELSE IF at.phase = "xss" THEN [at EXCEPT !.phase = "sqli", !.j = 1]
    ELSE page_start(at.i + 1)

\* except Exception: pass, around the whole page
after_exception(at, n) == page_start(at.i + 1)

\* what test_reflected_xss may return for the parameter
xss_results(u, param) ==
    { <<>> } \cup
    { <<Finding("HIGH", "XSS", url_mod(u, param, s_xss[k]), param,
                <<"Reflected payload: ">> \o s_xss[k])>> : k \in 1..Len(s_xss) }

\* what test_dom_xss_with_js may return for the parameter
dom_results(u, param) ==
    { <<>> } \cup
    { <<Finding("HIGH", "XSS", url_mod(u, param, s_xss[k]), param,
                <<"Payload seen in rendered DOM">>)>> : k \in 1..Len(s_xss) }

\* what test_sqli_basic may return for the parameter
sqli_results(u, param) ==
    { <<>> } \cup
    { <<Finding("HIGH", "SQLi", url_mod(u, param, s_sqli[k]), param,
                <<"Error-based signature with payload: ">> \o s_sqli[k])>> : k \in 1..Len(s_sqli) }

\* (found: the findings run_scan appended after the call)
call(mod, param, raised, found) ==
    [mod |-> mod, i |-> s_at.i, param |-> param, raised |-> raised, found |-> Len(found)]

JsConfigs == { "off", "on", "bad" }

\* the forms crawl() found on the pages
FormsOn == (P_s :> OneForm) @@ (P_qr :> TwoForms) @@ (P_q2 :> OneForm)

RECURSIVE crawl_forms(_)
crawl_forms(pgs) ==
    IF pgs = <<>> THEN <<>>
    ELSE with_forms(crawl_forms(SubSeq(pgs, 1, Len(pgs) - 1)), pgs[Len(pgs)],
                    IF pgs[Len(pgs)] \in DOMAIN FormsOn THEN FormsOn[pgs[Len(pgs)]] ELSE NoForms)

ScanInit ==
    /\ s_pc = "headers"
    /\ s_pages \in PageLists
    /\ s_forms = crawl_forms(s_pages)
    /\ s_required = << <<"C", "S", "P">> >>
    /\ s_base = sorted(base_urls(s_pages))
    /\ s_xss = <<X_tag>>
    /\ s_sqli = <<S_quote>>
    /\ s_js \in JsConfigs
    /\ s_at = page_start(1)
    /\ findings = <<>>
    /\ s_result = <<>>
    /\ s_gets = <<>>
    /\ s_calls = <<>>
    /\ ScanRestIdle

\* the header check of one base URL
scan_header_check ==
    /\ s_pc = "headers" /\ s_base # <<>>
    /\ findings' = findings \o check_security_headers(Head(s_base), {}, s_required)
    /\ s_gets' = Append(s_gets, [url |-> Head(s_base), ok |-> TRUE])
    /\ s_base' = Tail(s_base)
    /\ UNCHANGED <<s_pc, s_pages, s_forms, s_required, s_xss, s_sqli, s_js, s_at, s_result, s_calls>>
    /\ UNCHANGED scanRest

\* the GET of one base URL raises
scan_header_raised ==
    /\ s_pc = "headers" /\ s_base # <<>>
    /\ s_gets' = Append(s_gets, [url |-> Head(s_base), ok |-> FALSE])
    /\ s_base' = Tail(s_base)
    /\ UNCHANGED <<s_pc, s_pages, s_forms, s_required, s_xss, s_sqli, s_js, s_at, findings,
                   s_result, s_calls>>
    /\ UNCHANGED scanRest

\* all base URLs are checked
scan_headers_done ==
    /\ s_pc = "headers" /\ s_base = <<>>
    /\ s_pc' = "detect"
    /\ UNCHANGED <<s_pages, s_forms, s_required, s_base, s_xss, s_sqli, s_js, s_at, findings,
                   s_result, s_gets, s_calls>>
    /\ UNCHANGED scanRest

\* if not qs: continue
scan_page_without_query ==
    /\ s_pc = "detect" /\ s_at.i <= Len(s_pages)
    /\ qs_of(s_at.i) = <<>>
    /\ s_at' = page_start(s_at.i + 1)
    /\ UNCHANGED <<s_pc, s_pages, s_forms, s_required, s_base, s_xss, s_sqli, s_js, findings,
                   s_result, s_gets, s_calls>>
    /\ UNCHANGED scanRest

\* test_reflected_xss returns a finding: append, continue
scan_xss_finding ==
    /\ s_pc = "detect" /\ s_at.i <= Len(s_pages) /\ s_at.phase = "xss"
    /\ \E qs \in {qs_of(s_at.i)} :
          /\ qs # <<>>
          /\ \E fx \in xss_results(s_pages[s_at.i], qs[s_at.j][1]) :
                /\ fx # <<>>
                /\ findings' = findings \o fx
                /\ s_calls' = Append(s_calls, call("xss", qs[s_at.j][1], FALSE, fx))
          /\ s_at' = after_param(s_at, Len(qs))
    /\ UNCHANGED <<s_pc, s_pages, s_forms, s_required, s_base, s_xss, s_sqli, s_js, s_result, s_gets>>
    /\ UNCHANGED scanRest

\* test_reflected_xss returns None and javascript is not enabled
scan_xss_none ==
    /\ s_pc = "detect" /\ s_at.i <= Len(s_pages) /\ s_at.phase = "xss"
    /\ s_js = "off"
    /\ \E qs \in {qs_of(s_at.i)} :
          /\ qs # <<>>
          /\ s_calls' = Append(s_calls, call("xss", qs[s_at.j][1], FALSE, <<>>))
          /\ s_at' = after_param(s_at, Len(qs))
    /\ UNCHANGED <<s_pc, s_pages, s_forms, s_required, s_base, s_xss, s_sqli, s_js, findings,
                   s_result, s_gets>>
    /\ UNCHANGED scanRest

\* test_reflected_xss returns None, test_dom_xss_with_js returns
scan_dom ==
    /\ s_pc = "detect" /\ s_at.i <= Len(s_pages) /\ s_at.phase = "xss"
    /\ s_js = "on"
    /\ \E qs \in {qs_of(s_at.i)} :
          /\ qs # <<>>
          /\ \E fdom \in dom_results(s_pages[s_at.i], qs[s_at.j][1]) :
                /\ findings' = findings \o fdom
                /\ s_calls' = s_calls \o << call("xss", qs[s_at.j][1], FALSE, <<>>),
                                            call("dom", qs[s_at.j][1], FALSE, fdom) >>
          /\ s_at' = after_param(s_at, Len(qs))
    /\ UNCHANGED <<s_pc, s_pages, s_forms, s_required, s_base, s_xss, s_sqli, s_js, s_result, s_gets>>
    /\ UNCHANGED scanRest

\* test_reflected_xss returns None, test_dom_xss_with_js raises at int(js_cfg.get(...))
scan_dom_raised ==
    /\ s_pc = "detect" /\ s_at.i <= Len(s_pages) /\ s_at.phase = "xss"
    /\ s_js = "bad"
    /\ \E qs \in {qs_of(s_at.i)} :
          /\ qs # <<>>
          /\ s_calls' = s_calls \o << call("xss", qs[s_at.j][1], FALSE, <<>>),
                                      call("dom", qs[s_at.j][1], TRUE, <<>>) >>
          /\ s_at' = after_exception(s_at, Len(qs))
    /\ UNCHANGED <<s_pc, s_pages, s_forms, s_required, s_base, s_xss, s_sqli, s_js, findings,
                   s_result, s_gets>>
    /\ UNCHANGED scanRest

\* test_sqli_basic returns
scan_sqli ==
    /\ s_pc = "detect" /\ s_at.i <= Len(s_pages) /\ s_at.phase = "sqli"
    /\ \E qs \in {qs_of(s_at.i)} :
          /\ \E fs \in sqli_results(s_pages[s_at.i], qs[s_at.j][1]) :
                /\ findings' = findings \o fs
                /\ s_calls' = Append(s_calls, call("sqli", qs[s_at.j][1], FALSE, fs))
          /\ s_at' = after_param(s_at, Len(qs))
    /\ UNCHANGED <<s_pc, s_pages, s_forms, s_required, s_base, s_xss, s_sqli, s_js, s_result, s_gets>>
    /\ UNCHANGED scanRest

\* variant: the number of pages that have forms
total_forms_pages(d) == Len(d)

\* total_forms = sum(len(v) for v in forms.values())
RECURSIVE total_forms(_)
total_forms(d) == IF d = <<>> THEN 0 ELSE Len(Head(d)[2]) + total_forms(Tail(d))

ScanResult(pgs, fms, fnd) ==
    [pages |-> pgs, forms |-> fms, crawled_pages |-> Len(pgs),
     discovered_forms |-> total_forms(fms), findings |-> fnd]

\* every page is done: return ScanResult(...)
scan_return ==
    /\ s_pc = "detect" /\ s_at.i > Len(s_pages)
    /\ s_result' = <<ScanResult(s_pages, s_forms, findings)>>
    /\ s_pc' = "done"
    /\ UNCHANGED <<s_pages, s_forms, s_required, s_base, s_xss, s_sqli, s_js, s_at, findings,
                   s_gets, s_calls>>
    /\ UNCHANGED scanRest

\* api_server.py: the ScanStatus start_scan creates
ScanStatus(t) ==
    [state |-> "running", progress |-> 5, message |-> EMPTY,
     started_at |-> t, finished_at |-> <<>>,
     pages |-> 0, forms |-> 0, findings |-> 0,
     json_path |-> <<>>, html_path |-> <<>>, events |-> <<>>]

\* st.pages = result.crawled_pages; st.forms = result.discovered_forms;
\* st.findings = len(result.findings)
with_result(st, result) ==
    [st EXCEPT !.pages = result.crawled_pages,
               !.forms = result.discovered_forms,
               !.findings = Len(result.findings)]

\* cli.py: unique_preserve_order
unique_preserve_order(items) == dedup(items, {})

\* [p for p in ep if p not in res.pages]
not_in(ep, pgs) == SelectSeq(ep, LAMBDA x : \A i \in 1..Len(pgs) : pgs[i] # x)

\* the forms of ef appended to the per-page lists of res.forms
RECURSIVE merge_forms(_, _)
merge_forms(d, ef) ==
    IF ef = <<>> THEN d
    ELSE merge_forms(
            IF Head(ef)[2] = <<>> THEN d
            ELSE dict_set(d, Head(ef)[1],
                          (IF dict_has(d, Head(ef)[1]) THEN dict_get(d, Head(ef)[1]) ELSE <<>>)
                          \o Head(ef)[2]),
            Tail(ef))

\* main, lines 235-252: pages and forms merged, both counts computed again
merged_pages(res, ep) == unique_preserve_order(res.pages \o unique_preserve_order(not_in(ep, res.pages)))

\* variant: the merged result is built without the findings
merged_without_findings(res, ep, ef) ==
    ScanResult(merged_pages(res, ep), merge_forms(res.forms, ef), <<>>)

merged(res, ep, ef) ==
    ScanResult(merged_pages(res, ep), merge_forms(res.forms, ef), res.findings)

P_n == <<"http", ":", "/", "/", "a", "/", "n">>

\* what js_discovery_pass may return: (pages, forms)
Discoveries ==
    { << <<>>, <<>> >>,
      << <<P_s>>, << <<P_s, OneForm>> >> >>,
      << <<P_s, P_n>>, << <<P_n, TwoForms>> >> >> }

\* no discovery pass: res is handed to the summary printer and the report writer
cli_no_discovery ==
    /\ s_pc = "done"
    /\ s_pc' = "handed"
    /\ UNCHANGED <<s_pages, s_forms, s_required, s_base, s_xss, s_sqli, s_js, s_at, findings,
                   s_result, s_gets, s_calls>>
    /\ UNCHANGED scanRest

\* --js-discovery: the pass returns, its results are merged into res, res is handed on
cli_discovery_merged ==
    /\ s_pc = "done" /\ s_js = "on"
    /\ \E d \in Discoveries : s_result' = <<merged(s_result[1], d[1], d[2])>>
    /\ s_pc' = "handed"
    /\ UNCHANGED <<s_pages, s_forms, s_required, s_base, s_xss, s_sqli, s_js, s_at, findings,
                   s_gets, s_calls>>
    /\ UNCHANGED scanRest

\* --js-discovery: js_discovery_pass raises at int(js_cfg.get(...)), main ends
cli_discovery_raised ==
    /\ s_pc = "done" /\ s_js = "bad"
    /\ s_pc' = "crashed"
    /\ UNCHANGED <<s_pages, s_forms, s_required, s_base, s_xss, s_sqli, s_js, s_at, findings,
                   s_result, s_gets, s_calls>>
    /\ UNCHANGED scanRest

\* the API's scan task got the result: it copies the counts into the scan's status
api_result_read ==
    /\ s_pc = "done"
    /\ a_st' = <<with_result(ScanStatus(a_now), s_result[1])>>
    /\ s_pc' = "handed"
    /\ UNCHANGED <<s_pages, s_forms, s_required, s_base, s_xss, s_sqli, s_js, s_at, findings,
                   s_result, s_gets, s_calls>>
    /\ UNCHANGED <<a_pc, a_req, a_now, a_ran, a_exit, a_emitted>>
    /\ UNCHANGED apiRest_scan

\* save_report(res, ...) writes the reports
report_saved ==
    /\ s_pc = "handed"
    /\ s_pc' = "saved"
    /\ UNCHANGED <<s_pages, s_forms, s_required, s_base, s_xss, s_sqli, s_js, s_at, findings,
                   s_result, s_gets, s_calls>>
    /\ UNCHANGED scanRest

ScanNext ==
    \/ scan_header_check
    \/ scan_header_raised
    \/ scan_headers_done
    \/ scan_page_without_query
    \/ scan_xss_finding
    \/ scan_xss_none
    \/ scan_dom
    \/ scan_dom_raised
    \/ scan_sqli
    \/ scan_return
    \/ cli_no_discovery
    \/ cli_discovery_merged
    \/ cli_discovery_raised
    \/ api_result_read
    \/ report_saved

SpecScan == ScanInit /\ [][ScanNext]_vars

\* the URL without query string and fragment
BaseOf(u) == urlunsplit(urlsplit(u).scheme, urlsplit(u).netloc, urlsplit(u).path, EMPTY, EMPTY)

\* C13: header checks run once per base URL with query and fragment stripped:
\* crawled pages that differ only in query string or fragment cause exactly one
\* header-check request.
HeaderCheckOncePerBase ==
    s_pc \in {"detect", "done", "handed", "saved"} =>
        \A i \in 1..Len(s_pages) :
            Cardinality({ g \in 1..Len(s_gets) : BaseOf(s_gets[g].url) = BaseOf(s_pages[i]) }) = 1

\* the number of findings all the calls led to
RECURSIVE FoundSum(_)
FoundSum(calls) == IF calls = <<>> THEN 0 ELSE Head(calls).found + FoundSum(Tail(calls))

\* the number of findings the calls of the modules in mods for parameter param of
\* the page at url u led to
RECURSIVE FoundBy(_, _, _, _)
FoundBy(calls, mods, u, param) ==
    IF calls = <<>> THEN 0
    ELSE (IF Head(calls).mod \in mods /\ s_pages[Head(calls).i] = u /\ Head(calls).param = param
          THEN Head(calls).found ELSE 0)
         + FoundBy(Tail(calls), mods, u, param)

\* the findings of one type in a list
OfType(fs, type) == SelectSeq(fs, LAMBDA f : f.type = type)

\* C35 as stated: test_dom_xss_with_js is called for a parameter only if
\* test_reflected_xss returned no finding for it, and findings never holds two XSS
\* findings, nor two SQLi findings, for the same page and parameter.
OneFindingPerPageAndParameter ==
    s_pc \in {"detect", "done", "handed", "saved"} =>
        /\ \A c \in 1..Len(s_calls) :
              s_calls[c].mod = "dom" =>
                  /\ c > 1 /\ s_calls[c - 1].mod = "xss" /\ s_calls[c - 1].found = 0
                  /\ s_calls[c - 1].i = s_calls[c].i /\ s_calls[c - 1].param = s_calls[c].param
        /\ Len(OfType(findings, "XSS")) + Len(OfType(findings, "SQLi"))
              = FoundSum(s_calls)
        /\ \A i \in 1..Len(s_pages) :
           \A j \in 1..Len(qs_of(i)) :
              /\ FoundBy(s_calls, {"xss", "dom"}, s_pages[i], qs_of(i)[j][1]) <= 1
              /\ FoundBy(s_calls, {"sqli"}, s_pages[i], qs_of(i)[j][1]) <= 1

\* crawl: with javascript.enabled, js_context is entered once before the loop
crawl_js_contexts(js) == IF js = "off" THEN 0 ELSE 1

\* test_dom_xss_with_js: every call that gets past the int(...) conversions
\* enters a js_context of its own
RECURSIVE dom_js_contexts(_)
dom_js_contexts(calls) ==
    IF calls = <<>> THEN 0
    ELSE (IF Head(calls).mod = "dom" /\ ~Head(calls).raised THEN 1 ELSE 0)
         + dom_js_contexts(Tail(calls))

\* C26 as stated: in a scan with javascript.enabled the browser context is opened
\* exactly once for the whole run_scan, whatever the number of pages rendered and
\* of parameters probed for DOM XSS.
RendererOpenedOncePerScan ==
    (s_pc \in {"headers", "detect", "done", "handed", "saved"} /\ s_js # "off") =>
        crawl_js_contexts(s_js) + dom_js_contexts(s_calls) = 1

\* module mod was called for parameter param of page i
Called(mod, i, param) ==
    \E c \in 1..Len(s_calls) :
        s_calls[c].mod = mod /\ s_calls[c].i = i /\ s_calls[c].param = param

\* C16: an exception raised by detection for one parameter of one page never
\* prevents the rest of the scan: every parameter of every page with a query
\* string is still tested for XSS and for SQLi, and run_scan returns a ScanResult.
DetectionFailureIsolated ==
    s_pc \in {"done", "handed", "saved"} =>
        /\ s_result # <<>>
        /\ \A i \in 1..Len(s_pages) :
           \A j \in 1..Len(qs_of(i)) :
              Called("xss", i, qs_of(i)[j][1]) /\ Called("sqli", i, qs_of(i)[j][1])

\* C22: after the crawl, run_scan first performs all header checks, then visits
\* the pages in discovery order; for every page with a query string it runs
\* reflected-XSS detection for every query parameter and then SQLi detection for
\* every query parameter; pages without a query string get no probes; DOM-XSS
\* detection is never invoked unless javascript.enabled is true.
DetectionPassOrder ==
    /\ s_calls # <<>> => (s_pc # "headers" /\ Len(s_gets) = Cardinality(base_urls(s_pages)))
    /\ \A c, d \in 1..Len(s_calls) :
          c < d =>
             /\ s_calls[c].i <= s_calls[d].i
             /\ (s_calls[c].i = s_calls[d].i /\ s_calls[c].mod = "sqli") => s_calls[d].mod = "sqli"
    /\ \A c \in 1..Len(s_calls) :
          /\ qs_of(s_calls[c].i) # <<>>
          /\ s_calls[c].mod = "dom" => s_js # "off"
    /\ s_pc \in {"done", "handed", "saved"} =>
          \A i \in 1..Len(s_pages) :
          \A j \in 1..Len(qs_of(i)) :
             /\ Called("xss", i, qs_of(i)[j][1])
             /\ Called("sqli", i, qs_of(i)[j][1])

\* the number of forms in a dict of per-page form lists, counted form by form
FormCount(d) ==
    Cardinality({ e \in (1..Len(d)) \X (1..4) : e[2] <= Len(d[e[1]][2]) })

\* C20: in the ScanResult returned by run_scan, and in the ScanResult the CLI
\* hands to the summary printer and the report writer after its js-discovery
\* merge, discovered_forms is the sum of the lengths of the per-page form lists
\* and crawled_pages is the length of the pages sequence.
ScanResultCounts ==
    s_pc \in {"done", "handed", "saved"} =>
        /\ s_result # <<>>
        /\ s_result[1].crawled_pages = Len(s_result[1].pages)
        /\ s_result[1].discovered_forms = FormCount(s_result[1].forms)

\* the discovery pass added a page and its forms to a result that had forms
ScanResultCountsWitness ==
    /\ s_pc = "handed"
    /\ s_forms # <<>>
    /\ Len(s_result[1].pages) = Len(s_pages) + 1
    /\ s_result[1].discovered_forms = FormCount(s_forms) + 2

\* list a is the beginning of list b
IsPrefix(a, b) == Len(a) <= Len(b) /\ SubSeq(b, 1, Len(a)) = a

\* every page of dict d has its forms, in their order, at the head of its list in dict e
FormsKept(d, e) ==
    \A i \in 1..Len(d) : dict_has(e, d[i][1]) /\ IsPrefix(d[i][2], dict_get(e, d[i][1]))

\* C21 as stated: once run_scan has returned a ScanResult, none of its fields is
\* modified by any consumer (CLI, API task, report writer).
ScanResultImmutable == [][s_result # <<>> => s_result' = s_result]_vars

\* C21 amended: once run_scan has returned a ScanResult, its findings are never
\* modified, and the other fields are modified only by the CLI's js-discovery
\* merge, which keeps the pages in their order (a page that is there twice is
\* kept once) and every form in place, appends the discovered ones, and computes
\* both counts again; the API task and the report writer modify nothing.
ScanResultChangedByMergeOnly ==
    [][(s_result # <<>> /\ s_result' # s_result) =>
          /\ s_pc = "done" /\ s_pc' = "handed" /\ s_js = "on" /\ a_st' = a_st
          /\ s_result'[1].findings = s_result[1].findings
          /\ IsPrefix(unique_preserve_order(s_result[1].pages), s_result'[1].pages)
          /\ s_result'[1].pages = unique_preserve_order(s_result'[1].pages)
          /\ FormsKept(s_result[1].forms, s_result'[1].forms)
          /\ s_result'[1].crawled_pages = Len(s_result'[1].pages)
          /\ s_result'[1].discovered_forms = FormCount(s_result'[1].forms)]_vars

\* the reports were written from a result with findings that the CLI's merge changed
ScanResultChangedByMergeOnlyWitness ==
    /\ s_pc = "saved"
    /\ findings # <<>>
    /\ s_result[1].findings = findings
    /\ s_result[1].pages # s_pages
    /\ s_result[1].forms # s_forms

-----------------------------------------------------------------------------
(* run_scan before the crawl: the payload lists (StaticPayloadProvider,         *)
(* AIPayloadProvider, the cap), and the lists as the detection modules get them *)

WHITESPACE == { " ", "\n" }

\* str.strip()
RECURSIVE lstrip(_)
lstrip(x) == IF x # EMPTY /\ Head(x) \in WHITESPACE THEN lstrip(Tail(x)) ELSE x

RECURSIVE rstrip(_)
rstrip(x) ==
    IF x # EMPTY /\ x[Len(x)] \in WHITESPACE THEN rstrip(SubSeq(x, 1, Len(x) - 1)) ELSE x

strip(x) == rstrip(lstrip(x))

\* the files on disk, as lists of lines
File_f1 ==
    << <<" ", "<", "s", ">", " ", "\n">>, <<"\n">>, <<"#", "c", "\n">>,
       <<" ", "#", "c", "\n">>, <<"<", "s", ">">> >>
File_f2 == << <<"m", "\n">>, <<"<", "s", ">", "\n">>, <<"m", "\n">> >>
File_g1 == << <<"'", "\n">>, <<"'", " ", "\n">> >>

Disk == ("f1" :> File_f1) @@ ("f2" :> File_f2) @@ ("g1" :> File_g1)

\* s = line.strip(); if s and not s.startswith("#"): out.append(s)
RECURSIVE payload_lines(_)
payload_lines(lines) ==
    IF lines = <<>> THEN <<>>
    ELSE (IF strip(Head(lines)) # EMPTY /\ ~startswith(strip(Head(lines)), <<"#">>)
          THEN <<strip(Head(lines))>> ELSE <<>>)
         \o payload_lines(Tail(lines))

\* the lines of every file of the list that exists
RECURSIVE read_all(_)
read_all(file_list) ==
    IF file_list = <<>> THEN <<>>
    ELSE (IF Head(file_list) \in DOMAIN Disk THEN payload_lines(Disk[Head(file_list)]) ELSE <<>>)
         \o read_all(Tail(file_list))

\* StaticPayloadProvider._read_files
read_files(file_list) == dedup(read_all(file_list), {})

\* StaticPayloadProvider.get_xss_payloads, get_sqli_payloads: inline + files
get_payloads(inline, files) == inline \o read_files(files)

\* AIPayloadProvider.get_xss_payloads, get_sqli_payloads
ai_payloads == <<>>

\* a value of max_test_payloads_per_param: unset, an int, a bool, a str
NoCap == [type |-> "none", val |-> 0]
IntCap(n) == [type |-> "int", val |-> n]
BoolCap(b) == [type |-> "bool", val |-> IF b THEN 1 ELSE 0]
StrCap(n) == [type |-> "str", val |-> n]

\* isinstance(cap, int): a bool is an int
is_int(cap) == cap.type \in {"int", "bool"}

\* variant: the configured number is taken whatever it is
per_param_cap_any(cap) == IF cap.type = "none" THEN {} ELSE {cap.val}

\* per_param_cap = int(cap) if isinstance(cap, int) and cap > 0 else None
per_param_cap(cap) == IF is_int(cap) /\ cap.val > 0 THEN {cap.val} ELSE {}

\* the end of the slice list[:c]
slice_end(c, n) ==
    IF c >= 0 THEN (IF c < n THEN c ELSE n)
    ELSE (IF n + c > 0 THEN n + c ELSE 0)

\* xss_payloads[:per_param_cap]
truncated(list, cap) ==
    IF cap = {} THEN list
    ELSE SubSeq(list, 1, CHOOSE n \in 0..Len(list) : \E c \in cap : n = slice_end(c, Len(list)))

\* inline list and file list of one vulnerability class
Source(inline, files) == [inline |-> inline, files |-> files]

XssSources ==
    { Source(<<>>, <<>>),
      Source(<<X_tag>>, <<"f1">>),
      Source(<<X_tag, X_tag>>, <<>>),
      Source(<<>>, <<"nofile", "f2">>),
      Source(<<X_tag>>, <<"nofile", "f2">>) }

SqliSources ==
    { Source(<<S_quote>>, <<>>),
      Source(<<S_quote>>, <<"g1">>) }

CapValues == { NoCap, IntCap(0), IntCap(-1), IntCap(1), IntCap(2), StrCap(2), BoolCap(TRUE) }

payloads_cfg(xss, sqli, cap) ==
    [ xss_reflected |-> xss.inline, xss_files |-> xss.files,
      sqli_basic |-> sqli.inline, sqli_files |-> sqli.files, cap |-> cap ]

PayloadConfigs ==
    { payloads_cfg(xss, sqli, cap) : xss \in XssSources, sqli \in SqliSources, cap \in CapValues }

PayloadsInit ==
    /\ s_pc = "build"
    /\ s_pcfg \in PayloadConfigs
    /\ s_cap = {}
    /\ s_pages = <<P_qr>> /\ s_forms = <<>> /\ s_required = <<>>
    /\ s_base = <<>> /\ s_xss = <<>> /\ s_sqli = <<>> /\ s_js = "on" /\ s_at = <<>>
    /\ findings = <<>> /\ s_result = <<>> /\ s_gets = <<>> /\ s_calls = <<>>
    /\ ProbeIdle
    /\ PayloadRestIdle

\* the lists are built and truncated
scan_build_payloads ==
    /\ s_pc = "build"
    /\ s_cap' = per_param_cap(s_pcfg.cap)
    /\ s_xss' = truncated(get_payloads(s_pcfg.xss_reflected, s_pcfg.xss_files) \o ai_payloads,
                          per_param_cap(s_pcfg.cap))
    /\ s_sqli' = truncated(get_payloads(s_pcfg.sqli_basic, s_pcfg.sqli_files) \o ai_payloads,
                           per_param_cap(s_pcfg.cap))
    /\ s_pc' = "call"
    /\ UNCHANGED <<s_pages, s_forms, s_required, s_base, s_js, s_at, findings, s_result, s_gets,
                   s_calls, s_pcfg>>
    /\ UNCHANGED probeVars
    /\ UNCHANGED payloadRest

\* a detection module may be called: none is running
may_call == s_pc = "call" /\ t_pc \in {"idle", "done"}

\* one parameter of the page is probed next
call_of(mod, param) == [mod |-> mod, i |-> 1, param |-> param, raised |-> FALSE]

\* what the calls leave alone
callRest ==
    <<s_pc, s_pages, s_forms, s_required, s_base, s_xss, s_sqli, s_js, s_at, findings, s_result,
      s_gets, s_pcfg, s_cap>>

\* test_reflected_xss(session, u, param, xss_payloads, per_param_cap)
scan_call_xss ==
    /\ may_call
    /\ t_pc' = "xss"
    /\ t_url' = s_pages[1]
    /\ \E j \in 1..Len(qs_of(1)) :
          /\ t_param' = qs_of(1)[j][1]
          /\ s_calls' = <<call_of("xss", qs_of(1)[j][1])>>
    /\ t_payloads' = s_xss
    /\ t_cap' = s_cap
    /\ t_k' = 1 /\ tested' = 0 /\ baseline' = <<>>
    /\ t_result' = <<>> /\ t_base' = <<>> /\ t_probes' = <<>>
    /\ UNCHANGED callRest
    /\ UNCHANGED payloadRest

\* test_dom_xss_with_js(u, param, xss_payloads, js_cfg)
scan_call_dom ==
    /\ may_call
    /\ t_pc' = "dom"
    /\ t_url' = s_pages[1]
    /\ \E j \in 1..Len(qs_of(1)) :
          /\ t_param' = qs_of(1)[j][1]
          /\ s_calls' = <<call_of("dom", qs_of(1)[j][1])>>
    /\ t_payloads' = s_xss
    /\ t_cap' = {}
    /\ t_k' = 1 /\ tested' = 0 /\ baseline' = <<>>
    /\ t_result' = <<>> /\ t_base' = <<>> /\ t_probes' = <<>>
    /\ UNCHANGED callRest
    /\ UNCHANGED payloadRest

\* test_sqli_basic(session, u, param, sqli_payloads, per_param_cap)
scan_call_sqli ==
    /\ may_call
    /\ t_pc' = "baseline"
    /\ t_url' = s_pages[1]
    /\ \E j \in 1..Len(qs_of(1)) :
          /\ t_param' = qs_of(1)[j][1]
          /\ s_calls' = <<call_of("sqli", qs_of(1)[j][1])>>
    /\ t_payloads' = s_sqli
    /\ t_cap' = s_cap
    /\ t_k' = 1 /\ tested' = 0 /\ baseline' = <<>>
    /\ t_result' = <<>> /\ t_base' = <<>> /\ t_probes' = <<>>
    /\ UNCHANGED callRest
    /\ UNCHANGED payloadRest

\* The steps of the module called.  The lists run_scan hands over are no longer
\* than the cap it hands over, so the cap never stops a loop here (CapNeverHit).
PayloadsNext ==
    \/ scan_build_payloads
    \/ scan_call_xss
    \/ scan_call_dom
    \/ scan_call_sqli
    \/ xss_probe_raised \/ xss_probe_reflected \/ xss_probe_clean \/ xss_exhausted
    \/ sqli_baseline \/ sqli_baseline_raised
    \/ sqli_probe_raised \/ sqli_probe_high \/ sqli_probe_medium \/ sqli_probe_clean
    \/ sqli_exhausted
    \/ DomNext

SpecPayloads == PayloadsInit /\ [][PayloadsNext]_vars

\* no string twice
NoDuplicates(list) == \A i, j \in 1..Len(list) : i # j => list[i] # list[j]

\* C18: the XSS and the SQLi payload sequences that run_scan builds and hands
\* to the detection modules contain no string twice, for every combination of
\* inline lists and payload files.
PayloadsDeduplicated ==
    s_pc = "call" => (NoDuplicates(s_xss) /\ NoDuplicates(s_sqli))

\* the module that was called last
Running == s_calls[Len(s_calls)].mod

\* max_test_payloads_per_param is a positive integer (a bool is an int)
CapSet == s_pcfg.cap.type \in {"int", "bool"} /\ s_pcfg.cap.val > 0

\* the first c entries of the concatenation of the providers' outputs, all of
\* them when no cap is set
Capped(inline, files) ==
    LET full == inline \o read_files(files) \o ai_payloads
    IN  IF CapSet /\ s_pcfg.cap.val < Len(full) THEN SubSeq(full, 1, s_pcfg.cap.val) ELSE full

\* the lists are the capped lists, and every module called got its list
ListsCapped ==
    /\ s_xss = Capped(s_pcfg.xss_reflected, s_pcfg.xss_files)
    /\ s_sqli = Capped(s_pcfg.sqli_basic, s_pcfg.sqli_files)
    /\ s_calls # <<>> =>
          t_payloads = (IF Running = "sqli" THEN s_sqli ELSE s_xss)

\* inside the modules the cap never stops a loop
CapNeverHit == (t_pc \in {"xss", "sqli"} /\ t_k <= Len(t_payloads)) => ~cap_hit

\* the claim as stated: no module probes more than c times for one parameter
PayloadCapEveryModule ==
    s_pc = "call" =>
        /\ ListsCapped
        /\ CapSet => Len(t_probes) <= s_pcfg.cap.val

\* C19: with max_test_payloads_per_param a positive integer c, the XSS list and
\* the SQLi list are the first c entries of the providers' concatenated output,
\* every call of a module gets that list, and test_reflected_xss and
\* test_sqli_basic probe at most c times for one parameter;
\* test_dom_xss_with_js probes at most c + 1 times, its canary being added to
\* the list.  Without a cap that is a positive integer the lists are whole.
PayloadCap ==
    s_pc = "call" =>
        /\ ListsCapped
        /\ CapNeverHit
        /\ (CapSet /\ s_calls # <<>>) =>
              Len(t_probes) <= s_pcfg.cap.val + (IF Running = "dom" THEN 1 ELSE 0)

\* a list of three is cut to one, and each module has probed as often as it may
PayloadCapWitness ==
    /\ s_pc = "call" /\ t_pc = "done"
    /\ s_pcfg.cap = IntCap(1)
    /\ Len(get_payloads(s_pcfg.xss_reflected, s_pcfg.xss_files)) = 3
    /\ Len(s_xss) = 1
    /\ s_calls # <<>> /\ Running = "dom" /\ Len(t_probes) = 2

-----------------------------------------------------------------------------
(* api_server.py and cli.py: the callers of run_scan *)

\* if len(st.events) > 500
EventCap == 500

MaxEmits == 502
MaxClock == 2

\* f"[{time.strftime('%H:%M:%S')}] {msg}": the time read when the line is made, then
\* the message
line(t, msg) == <<"[", t, "]", " ">> \o msg

\* variant: st.events[:500], the oldest lines are kept
oldest_lines(ev, n) == SubSeq(ev, 1, n)

\* st.events[-500:]
newest_lines(ev, n) == SubSeq(ev, Len(ev) - n + 1, Len(ev))

\* _progress_emit(st, msg)
progress_emit(st, t, msg) ==
    [st EXCEPT !.events =
        IF Len(st.events) + 1 > EventCap
        THEN newest_lines(Append(st.events, line(t, msg)), EventCap)
        ELSE Append(st.events, line(t, msg))]

\* an exception: its type's name and str(e)
Exc(type, text) == [type |-> type, text |-> text]

\* what open(path) followed by yaml.safe_load(f) gives, by the kind of file at path
ConfigFiles == {"missing", "undecodable", "malformed", "empty", "mapping"}

\* variant: a file that does not parse is taken for an empty configuration
opened_lenient(file) ==
    CASE file = "missing"     -> [ok |-> FALSE, exc |-> Exc("FileNotFoundError", <<"no", " ", "file">>)]
      [] file = "undecodable" -> [ok |-> FALSE, exc |-> Exc("UnicodeDecodeError", <<"bad", " ", "byte">>)]
      [] file = "malformed"   -> [ok |-> TRUE, cfg |-> "empty"]
      [] file = "empty"       -> [ok |-> TRUE, cfg |-> "empty"]
      [] OTHER                -> [ok |-> TRUE, cfg |-> "mapping"]

\* with open(path, "r", encoding="utf-8") as f: cfg = yaml.safe_load(f) or {}
opened(file) ==
    CASE file = "missing"     -> [ok |-> FALSE, exc |-> Exc("FileNotFoundError", <<"no", " ", "file">>)]
      [] file = "undecodable" -> [ok |-> FALSE, exc |-> Exc("UnicodeDecodeError", <<"bad", " ", "byte">>)]
      [] file = "malformed"   -> [ok |-> FALSE, exc |-> Exc("ScannerError", <<>>)]
      [] file = "empty"       -> [ok |-> TRUE, cfg |-> "empty"]
      [] OTHER                -> [ok |-> TRUE, cfg |-> "mapping"]

\* what run_scan or save_report may raise
Raised == { Exc("AttributeError", <<"get">>), Exc("Exception", <<>>) }

\* the counts of the ScanResult run_scan returns
ResultCounts ==
    { [crawled_pages |-> 0, discovered_forms |-> 0, findings |-> <<>>],
      [crawled_pages |-> 2, discovered_forms |-> 1, findings |-> <<"f">>] }

Requests ==
    { [caller |-> c, url |-> u, config |-> f] :
        c \in {"api", "cli"}, u \in {U_s, <<" ">>}, f \in ConfigFiles }

\* str.strip() of the url of the request
stripped(u) == SelectSeq(u, LAMBDA ch : ch # " ")

\* variant: the handler leaves finished_at as it is
failed_unstamped(st, e, t) ==
    progress_emit([st EXCEPT !.state = "error",
                             !.message = <<e.type, ":", " ">> \o e.text],
                  t, <<"Scan failed: ", e.type, ":", " ">> \o e.text)

\* except Exception as e: st.state = "error"; st.message = f"{type(e).__name__}: {e}";
\* st.finished_at = time.time(); _progress_emit(st, f"Scan failed: {st.message}")
failed(st, e, t) ==
    progress_emit([st EXCEPT !.state = "error",
                             !.message = <<e.type, ":", " ">> \o e.text,
                             !.finished_at = <<t>>],
                  t, <<"Scan failed: ", e.type, ":", " ">> \o e.text)

\* the line _progress_emit made of msg at time t
failed_line(e, t) == line(t, <<"Scan failed: ", e.type, ":", " ">> \o e.text)

ApiInit ==
    /\ a_pc = "request"
    /\ a_req \in { <<r>> : r \in Requests }
    /\ a_st = <<>>
    /\ a_now = 0
    /\ a_ran = 0
    /\ a_exit = <<>>
    /\ a_emitted = <<>>
    /\ ApiRestIdle

\* time passes
clock_tick ==
    /\ a_pc \notin {"idle", "request", "emit"}
    /\ a_now < MaxClock
    /\ a_now' = a_now + 1
    /\ UNCHANGED <<a_pc, a_req, a_st, a_ran, a_exit, a_emitted>>
    /\ UNCHANGED apiRest

\* POST /scan with a blank url: HTTP 400
start_scan_refused ==
    /\ a_pc = "request" /\ a_req[1].caller = "api"
    /\ stripped(a_req[1].url) = <<>>
    /\ a_exit' = <<"http", 400>>
    /\ a_pc' = "refused"
    /\ UNCHANGED <<a_req, a_st, a_now, a_ran, a_emitted>>
    /\ UNCHANGED apiRest

\* POST /scan: the status is created and registered, the task is queued
start_scan ==
    /\ a_pc = "request" /\ a_req[1].caller = "api"
    /\ stripped(a_req[1].url) # <<>>
    /\ a_st' = <<ScanStatus(a_now)>>
    /\ a_pc' = "task"
    /\ UNCHANGED <<a_req, a_now, a_ran, a_exit, a_emitted>>
    /\ UNCHANGED apiRest

\* _run_scan_async, up to the try
api_task_start ==
    /\ a_pc = "task" /\ a_st # <<>>
    /\ a_st' = <<progress_emit(a_st[1], a_now, <<"Starting scan for ">> \o a_req[1].url)>>
    /\ a_emitted' = Append(a_emitted, line(a_now, <<"Starting scan for ">> \o a_req[1].url))
    /\ a_pc' = "config"
    /\ UNCHANGED <<a_req, a_now, a_ran, a_exit>>
    /\ UNCHANGED apiRest

\* the configuration is read: two lines are emitted, run_scan is called next
api_config_loaded ==
    /\ a_pc = "config" /\ a_req[1].caller = "api"
    /\ opened(a_req[1].config).ok
    /\ a_st' = <<progress_emit(progress_emit(a_st[1], a_now, <<"Config loaded.">>),
                               a_now, <<"Initializing scanner...">>)>>
    /\ a_emitted' = a_emitted \o <<line(a_now, <<"Config loaded.">>),
                                   line(a_now, <<"Initializing scanner...">>)>>
    /\ a_pc' = "scan"
    /\ UNCHANGED <<a_req, a_now, a_ran, a_exit>>
    /\ UNCHANGED apiRest

\* open or yaml.safe_load raises: the handler of the task records the error
api_config_failed ==
    /\ a_pc = "config" /\ a_req[1].caller = "api"
    /\ ~opened(a_req[1].config).ok
    /\ a_st' = <<failed(a_st[1], opened(a_req[1].config).exc, a_now)>>
    /\ a_emitted' = Append(a_emitted, failed_line(opened(a_req[1].config).exc, a_now))
    /\ a_pc' = "returned"
    /\ a_exit' = <<"return">>
    /\ UNCHANGED <<a_req, a_now, a_ran>>
    /\ UNCHANGED apiRest

\* core.run_scan returns: the counts are copied, save_report is called next
api_scan_returned ==
    /\ a_pc = "scan" /\ a_req[1].caller = "api"
    /\ a_ran' = a_ran + 1
    /\ \E result \in ResultCounts : a_st' = <<with_result(a_st[1], result)>>
    /\ a_pc' = "report"
    /\ UNCHANGED <<a_req, a_now, a_exit, a_emitted>>
    /\ UNCHANGED apiRest

\* core.run_scan raises
api_scan_raised ==
    /\ a_pc = "scan" /\ a_req[1].caller = "api"
    /\ a_ran' = a_ran + 1
    /\ \E e \in Raised :
          /\ a_st' = <<failed(a_st[1], e, a_now)>>
          /\ a_emitted' = Append(a_emitted, failed_line(e, a_now))
    /\ a_pc' = "returned"
    /\ a_exit' = <<"return">>
    /\ UNCHANGED <<a_req, a_now>>
    /\ UNCHANGED apiRest

\* the status of a scan whose reports are written
finished(st, t) ==
    progress_emit(
        [progress_emit([st EXCEPT !.json_path = <<"json">>, !.html_path = <<"html">>],
                       t, <<"Reports saved: ", "json", " | ", "html">>)
            EXCEPT !.progress = 100, !.state = "finished", !.finished_at = <<t>>],
        t, <<"Scan finished.">>)

\* core.save_report returns: the task finishes
api_report_saved ==
    /\ a_pc = "report" /\ a_req[1].caller = "api"
    /\ a_st' = <<finished(a_st[1], a_now)>>
    /\ a_emitted' = a_emitted \o <<line(a_now, <<"Reports saved: ", "json", " | ", "html">>),
                                   line(a_now, <<"Scan finished.">>)>>
    /\ a_pc' = "returned"
    /\ a_exit' = <<"return">>
    /\ UNCHANGED <<a_req, a_now, a_ran>>
    /\ UNCHANGED apiRest

\* core.save_report raises
api_report_raised ==
    /\ a_pc = "report" /\ a_req[1].caller = "api"
    /\ \E e \in Raised :
          /\ a_st' = <<failed(a_st[1], e, a_now)>>
          /\ a_emitted' = Append(a_emitted, failed_line(e, a_now))
    /\ a_pc' = "returned"
    /\ a_exit' = <<"return">>
    /\ UNCHANGED <<a_req, a_now, a_ran>>
    /\ UNCHANGED apiRest

\* cli.py main: load_config returns the configuration
cli_config_loaded ==
    /\ a_pc = "request" /\ a_req[1].caller = "cli"
    /\ opened(a_req[1].config).ok
    /\ a_emitted' = Append(a_emitted, <<"INFO", "Loaded config from ">>)
    /\ a_pc' = "scan"
    /\ UNCHANGED <<a_req, a_st, a_now, a_ran, a_exit>>
    /\ UNCHANGED apiRest

\* load_config: log.error(...); sys.exit(1)
cli_config_failed ==
    /\ a_pc = "request" /\ a_req[1].caller = "cli"
    /\ ~opened(a_req[1].config).ok
    /\ a_emitted' = Append(a_emitted, <<"ERROR", "Failed reading config ">>
                                      \o opened(a_req[1].config).exc.text)
    /\ a_exit' = <<"exit", 1>>
    /\ a_pc' = "exited"
    /\ UNCHANGED <<a_req, a_st, a_now, a_ran>>
    /\ UNCHANGED apiRest

\* main: run_scan returns, the reports are saved, main returns
cli_scan_returned ==
    /\ a_pc = "scan" /\ a_req[1].caller = "cli"
    /\ a_ran' = a_ran + 1
    /\ a_pc' = "returned"
    /\ a_exit' = <<"return">>
    /\ UNCHANGED <<a_req, a_st, a_now, a_emitted>>
    /\ UNCHANGED apiRest

\* main: run_scan raises, nothing in main catches it
cli_scan_raised ==
    /\ a_pc = "scan" /\ a_req[1].caller = "cli"
    /\ a_ran' = a_ran + 1
    /\ a_pc' = "exited"
    /\ a_exit' = <<"raise">>
    /\ UNCHANGED <<a_req, a_st, a_now, a_emitted>>
    /\ UNCHANGED apiRest

ApiNext ==
    \/ clock_tick
    \/ start_scan_refused
    \/ start_scan
    \/ api_task_start
    \/ api_config_loaded
    \/ api_config_failed
    \/ api_scan_returned
    \/ api_scan_raised
    \/ api_report_saved
    \/ api_report_raised
    \/ cli_config_loaded
    \/ cli_config_failed
    \/ cli_scan_returned
    \/ cli_scan_raised

SpecApi == ApiInit /\ [][ApiNext]_vars

\* the configuration file of the request cannot be read or parsed
ConfigFault == a_req # <<>> /\ a_req[1].config \in {"missing", "undecodable", "malformed"}

\* C24: when the configuration file cannot be read or parsed, run_scan is never
\* called; the API's task returns with the status in state "error", a message that
\* is not empty and finished_at set, and raises nothing; the CLI logs an error
\* and exits with status 1.
ConfigFaultReported ==
    ConfigFault =>
        /\ a_ran = 0
        /\ a_pc \notin {"scan", "report"}
        /\ a_exit # <<"raise">>
        /\ (a_req[1].caller = "api" /\ a_pc = "returned") =>
              /\ a_exit = <<"return">>
              /\ a_st[1].state = "error"
              /\ a_st[1].message # <<>>
              /\ a_st[1].finished_at # <<>>
        /\ (a_req[1].caller = "cli" /\ a_pc # "request") =>
              /\ a_pc = "exited" /\ a_exit = <<"exit", 1>>
              /\ a_emitted # <<>> /\ a_emitted[Len(a_emitted)][1] = "ERROR"

\* a file that does not parse: the task has returned with the error recorded after
\* time has passed since the request
ConfigFaultReportedWitness ==
    /\ a_req # <<>> /\ a_req[1].caller = "api" /\ a_req[1].config = "malformed"
    /\ a_pc = "returned"
    /\ a_st[1].state = "error" /\ a_st[1].finished_at = <<2>> /\ a_st[1].started_at = 0
    /\ Len(a_st[1].events) = 2

\* a harness for _progress_emit: the task of one scan emits line after line, while
\* the status endpoint reads the status
EventsInit ==
    /\ a_pc = "emit"
    /\ a_req = <<[caller |-> "api", url |-> U_s, config |-> "mapping"]>>
    /\ a_st = <<ScanStatus(0)>>
    /\ a_now = 0
    /\ a_ran = 0
    /\ a_exit = <<>>
    /\ a_emitted = <<>>
    /\ ApiRestIdle

\* the task calls _progress_emit(st, msg); the message holds the number of the call
task_emits ==
    /\ a_pc = "emit" /\ Len(a_emitted) < MaxEmits
    /\ a_st' = <<progress_emit(a_st[1], a_now, <<"line ", Len(a_emitted) + 1>>)>>
    /\ a_emitted' = Append(a_emitted, line(a_now, <<"line ", Len(a_emitted) + 1>>))
    /\ UNCHANGED <<a_pc, a_req, a_now, a_ran, a_exit>>
    /\ UNCHANGED apiRest

\* GET /scan/{scan_id}/status: the status is dumped, the response is sent
scan_status ==
    /\ a_pc = "emit"
    /\ a_exit' = <<"http", 200, Len(a_st[1].events)>>
    /\ UNCHANGED <<a_pc, a_req, a_st, a_now, a_ran, a_emitted>>
    /\ UNCHANGED apiRest

EventsNext ==
    \/ task_emits
    \/ scan_status

SpecEvents == EventsInit /\ [][EventsNext]_vars

\* the last n lines of a list
Latest(ev, n) == IF Len(ev) <= n THEN ev ELSE SubSeq(ev, Len(ev) - n + 1, Len(ev))

\* C25: after any sequence of _progress_emit calls, events holds at most 500 lines,
\* which are the most recent min(n, 500) lines emitted, in emission order; a step
\* that changes events is an emission of the scan's own task.
BoundedEventLog ==
    /\ [](a_st # <<>> =>
            /\ Len(a_st[1].events) <= EventCap
            /\ a_st[1].events = Latest(a_emitted, EventCap))
    /\ [][(a_st # <<>> /\ a_st'[1].events # a_st[1].events) =>
            (a_pc = "emit" /\ Len(a_emitted') = Len(a_emitted) + 1)]_vars

\* more than 500 lines were emitted: the first is gone, and a reader was answered
BoundedEventLogWitness ==
    /\ a_pc = "emit"
    /\ Len(a_emitted) = EventCap + 2
    /\ Len(a_st[1].events) = EventCap
    /\ a_st[1].events[1] = a_emitted[3]
    /\ a_exit = <<"http", 200, EventCap>>

-----------------------------------------------------------------------------
(* api_server.py: the scan store RUNS, the background tasks and scan_stream.  *)
(* The server runs its coroutines on one event loop: a coroutine runs until   *)
(* it awaits or yields.  _run_scan_async awaits nothing after it has taken    *)
(* its status from RUNS, so one step takes a task from there to its return;   *)
(* event_gen is suspended at asyncio.sleep and at each of its yields.         *)

MaxScans == 2
MaxPolls == 2

\* the configuration files of the requests sent to the server
ServerConfigs == {"missing", "mapping"}

\* uuid.uuid4().hex[:12]: an identifier no scan has yet
uuid4(runs) == Len(runs) + 1

\* RUNS[scan_id] = st
registered(d, k, v) == [x \in DOMAIN d \cup {k} |-> IF x = k THEN v ELSE d[x]]

\* _run_scan_async before the try: _progress_emit(st, f"Starting scan for {req.url}")
started(st, t) == progress_emit(st, t, <<"Starting scan for ">> \o U_s)

\* _progress_emit(st, "Config loaded."); _progress_emit(st, "Initializing scanner...")
configured(st, t) ==
    progress_emit(progress_emit(st, t, <<"Config loaded.">>), t, <<"Initializing scanner...">>)

\* the lines of a task up to the call of run_scan
lines_to_scan(t) ==
    << line(t, <<"Starting scan for ">> \o U_s), line(t, <<"Config loaded.">>),
       line(t, <<"Initializing scanner...">>) >>

\* the lines of a task that finishes
lines_finished(t) ==
    << line(t, <<"Reports saved: ", "json", " | ", "html">>), line(t, <<"Scan finished.">>) >>

\* st.state in ("finished", "error")
terminal(st) == st.state \in {"finished", "error"}

ServerInit ==
    /\ RUNS = <<>>
    /\ tasks = <<>>
    /\ now = 0
    /\ reader = <<>>
    /\ stream = <<>>
    /\ written = <<>>
    /\ ServerRestIdle

\* POST /scan: start_scan creates the status, registers it and queues the task
post_scan ==
    /\ Len(RUNS) < MaxScans
    /\ \E f \in ServerConfigs :
          /\ RUNS' = registered(RUNS, uuid4(RUNS), ScanStatus(now))
          /\ tasks' = registered(tasks, uuid4(RUNS), [pc |-> "queued", config |-> f])
          /\ written' = registered(written, uuid4(RUNS), <<>>)
    /\ UNCHANGED <<now, reader, stream>>
    /\ UNCHANGED serverRest

\* the task of scan id ends at time t as st, having emitted the lines
task_returns(id, st, lines, t) ==
    /\ RUNS' = [RUNS EXCEPT ![id] = st]
    /\ tasks' = [tasks EXCEPT ![id].pc = "returned"]
    /\ written' = [written EXCEPT ![id] = written[id] \o lines]
    /\ now' = t
    /\ UNCHANGED <<reader, stream>>
    /\ UNCHANGED serverRest

\* _run_scan_async: open or yaml.safe_load raises
task_config_failed ==
    \E id \in DOMAIN tasks :
        /\ tasks[id].pc = "queued"
        /\ ~opened(tasks[id].config).ok
        /\ task_returns(id,
                        failed(started(RUNS[id], now), opened(tasks[id].config).exc, now),
                        << line(now, <<"Starting scan for ">> \o U_s),
                           failed_line(opened(tasks[id].config).exc, now) >>,
                        now)

\* _run_scan_async: core.run_scan raises; the clock has advanced while it ran
task_scan_raised ==
    \E id \in DOMAIN tasks :
        /\ tasks[id].pc = "queued"
        /\ opened(tasks[id].config).ok
        /\ \E e \in Raised :
              task_returns(id,
                           failed(configured(started(RUNS[id], now), now), e, now + 1),
                           Append(lines_to_scan(now), failed_line(e, now + 1)),
                           now + 1)

\* _run_scan_async: core.save_report raises
task_report_raised ==
    \E id \in DOMAIN tasks :
        /\ tasks[id].pc = "queued"
        /\ opened(tasks[id].config).ok
        /\ \E result \in ResultCounts, e \in Raised :
              task_returns(id,
                           failed(with_result(configured(started(RUNS[id], now), now), result),
                                  e, now + 1),
                           Append(lines_to_scan(now), failed_line(e, now + 1)),
                           now + 1)

\* _run_scan_async: the scan is run, the reports are saved, the task finishes
task_finished ==
    \E id \in DOMAIN tasks :
        /\ tasks[id].pc = "queued"
        /\ opened(tasks[id].config).ok
        /\ \E result \in ResultCounts :
              task_returns(id,
                           finished(with_result(configured(started(RUNS[id], now), now), result),
                                    now + 1),
                           lines_to_scan(now) \o lines_finished(now + 1),
                           now + 1)

\* event_gen at one of its suspension points
suspended(r, at) == [r EXCEPT !.pc = at]

\* yield f"event: status ...": the state the chunk holds
status_chunk(st) == <<"status", st.state>>

\* yield f"event: log\ndata: {json.dumps(st.events[i])}\n\n"
log_chunk(st, i) == <<"log", st.events[i + 1]>>

\* GET /scan/{scan_id}/stream for a scan that is not in RUNS: HTTP 404
scan_stream_not_found ==
    /\ reader = <<>>
    /\ \E id \in 1..MaxScans :
          /\ id \notin DOMAIN RUNS
          /\ reader' = <<[pc |-> "404", scan_id |-> id, last |-> 0, cur |-> 0, i |-> 0, polls |-> 0]>>
    /\ UNCHANGED <<RUNS, tasks, now, stream, written>>
    /\ UNCHANGED serverRest

\* GET /scan/{scan_id}/stream: st = RUNS.get(scan_id); event_gen runs to its first
\* yield
scan_stream ==
    /\ reader = <<>>
    /\ \E id \in DOMAIN RUNS :
          /\ reader' = <<[pc |-> "first", scan_id |-> id, last |-> 0, cur |-> 0, i |-> 0, polls |-> 0]>>
          /\ stream' = <<status_chunk(RUNS[id])>>
    /\ UNCHANGED <<RUNS, tasks, now, written>>
    /\ UNCHANGED serverRest

\* event_gen is resumed after its first yield or after a status that was not
\* terminal: await asyncio.sleep(0.7)
event_gen_sleeps ==
    /\ reader # <<>>
    /\ \/ reader[1].pc = "first"
       \/ reader[1].pc = "status" /\ ~terminal(RUNS[reader[1].scan_id])
    /\ reader[1].polls < MaxPolls
    /\ reader' = <<[reader[1] EXCEPT !.pc = "sleep", !.polls = reader[1].polls + 1]>>
    /\ UNCHANGED <<RUNS, tasks, now, stream, written>>
    /\ UNCHANGED serverRest

\* the sleep is over: cur = len(st.events); there are new lines, the first is yielded
event_gen_first_line ==
    /\ reader # <<>> /\ reader[1].pc = "sleep"
    /\ Len(RUNS[reader[1].scan_id].events) # reader[1].last
    /\ reader[1].last < Len(RUNS[reader[1].scan_id].events)
    /\ reader' = <<[reader[1] EXCEPT !.pc = "line",
                                     !.cur = Len(RUNS[reader[1].scan_id].events),
                                     !.i = reader[1].last]>>
    /\ stream' = Append(stream, log_chunk(RUNS[reader[1].scan_id], reader[1].last))
    /\ UNCHANGED <<RUNS, tasks, now, written>>
    /\ UNCHANGED serverRest

\* event_gen is resumed in its for loop: the next line is yielded
event_gen_next_line ==
    /\ reader # <<>> /\ reader[1].pc = "line"
    /\ reader[1].i + 1 < reader[1].cur
    /\ reader' = <<[reader[1] EXCEPT !.i = reader[1].i + 1]>>
    /\ stream' = Append(stream, log_chunk(RUNS[reader[1].scan_id], reader[1].i + 1))
    /\ UNCHANGED <<RUNS, tasks, now, written>>
    /\ UNCHANGED serverRest

\* the for loop is over (last = cur), or there was no new line: the status is yielded
event_gen_status ==
    /\ reader # <<>>
    /\ \/ reader[1].pc = "line" /\ reader[1].i + 1 >= reader[1].cur
          /\ reader' = <<[reader[1] EXCEPT !.pc = "status", !.last = reader[1].cur]>>
       \/ reader[1].pc = "sleep"
          /\ Len(RUNS[reader[1].scan_id].events) = reader[1].last
          /\ reader' = <<[reader[1] EXCEPT !.pc = "status",
                                           !.cur = Len(RUNS[reader[1].scan_id].events)]>>
    /\ stream' = Append(stream, status_chunk(RUNS[reader[1].scan_id]))
    /\ UNCHANGED <<RUNS, tasks, now, written>>
    /\ UNCHANGED serverRest

\* event_gen is resumed after a status: if st.state in ("finished", "error"): break
event_gen_ends ==
    /\ reader # <<>> /\ reader[1].pc = "status"
    /\ terminal(RUNS[reader[1].scan_id])
    /\ reader' = <<suspended(reader[1], "ended")>>
    /\ UNCHANGED <<RUNS, tasks, now, stream, written>>
    /\ UNCHANGED serverRest

ServerNext ==
    \/ post_scan
    \/ task_config_failed
    \/ task_scan_raised
    \/ task_report_raised
    \/ task_finished
    \/ scan_stream_not_found
    \/ scan_stream
    \/ event_gen_sleeps
    \/ event_gen_first_line
    \/ event_gen_next_line
    \/ event_gen_status
    \/ event_gen_ends

SpecServer == ServerInit /\ [][ServerNext]_vars

\* the task of scan id runs in this step
TaskRuns(id) == id \in DOMAIN tasks /\ tasks'[id] # tasks[id]

\* C36: every status is put into RUNS by start_scan in state "running"; its state
\* changes at most once, to "finished" or "error", and a status in a terminal state
\* stays as it is; finished_at is null while the state is "running" and set once it
\* is terminal; a step of a scan's task changes no entry but its own; and no entry
\* is removed from RUNS.
ScanStatusLifecycle ==
    /\ [](\A id \in DOMAIN RUNS :
            /\ RUNS[id].state \in {"running", "finished", "error"}
            /\ RUNS[id].state = "running" <=> RUNS[id].finished_at = <<>>)
    /\ [][/\ DOMAIN RUNS \subseteq DOMAIN RUNS'
          /\ \A id \in DOMAIN RUNS' \ DOMAIN RUNS :
                /\ RUNS'[id].state = "running"
                /\ id \notin DOMAIN tasks /\ tasks'[id].pc = "queued"
          /\ \A id \in DOMAIN RUNS :
                /\ terminal(RUNS[id]) => RUNS'[id] = RUNS[id]
                /\ RUNS'[id].state # RUNS[id].state =>
                      RUNS[id].state = "running" /\ terminal(RUNS'[id])
                /\ RUNS'[id] # RUNS[id] => TaskRuns(id)
                /\ TaskRuns(id) => \A o \in DOMAIN RUNS \ {id} : RUNS'[o] = RUNS[o]]_vars

\* two scans were started at different times; one has finished and the other has
\* failed, both later than they were started
ScanStatusLifecycleWitness ==
    /\ DOMAIN RUNS = 1..2
    /\ RUNS[1].state = "finished" /\ RUNS[2].state = "error"
    /\ RUNS[1].started_at < RUNS[2].started_at
    /\ RUNS[1].finished_at = <<1>> /\ RUNS[2].finished_at = <<2>>

\* the lines of the log chunks of a stream
logged(chunks) ==
    [k \in 1..Len(SelectSeq(chunks, LAMBDA c : c[1] = "log")) |->
        SelectSeq(chunks, LAMBDA c : c[1] = "log")[k][2]]

\* event_gen has left its loop
Ended == reader # <<>> /\ reader[1].pc = "ended"

=============================================================================
